---- MODULE Spec2Model ----
(***************************************************************************)
(* Model of the lines-changed GitHub action: the grouping and aggregation  *)
(* engine (calculateDiffSummary, aggregateGroupLines), the configuration    *)
(* parser (parseFileGroups), the pattern validator (validateGlobPatterns),  *)
(* the indicator (generateDiffSquares) and the run() entry point that       *)
(* drives them, once or run after run on the same pull request.             *)
(***************************************************************************)
EXTENDS Integers, Sequences, FiniteSets, Bags, TLC

\* ------------------------------------------------------------------------
\* Bounds of the model
\* ------------------------------------------------------------------------

\* Longest file list handed to calculateDiffSummary.
MaxFiles == 2

\* Longest list of configured groups.
MaxGroups == 2

\* Largest additions / deletions count of one file (raw or whitespace-adjusted).
MaxLines == 1

\* ------------------------------------------------------------------------
\* Inputs: file names, glob patterns and the matcher
\* ------------------------------------------------------------------------

Filenames ==
    {"src/generated/api.test.ts", "src/utils.test.ts", "src/main.ts", "README.md"}

\* minimatch(file.filename, pattern, { dot: true }) on the names and patterns
\* above: the result the matcher gives for each pair.
minimatch(filename, pattern) ==
    CASE pattern = "**/generated/**" -> filename = "src/generated/api.test.ts"
      [] pattern = "**/*.test.ts" ->
            filename \in {"src/generated/api.test.ts", "src/utils.test.ts"}
      [] pattern = "src/**" -> filename \in Filenames \ {"README.md"}
      [] pattern = "docs/**" -> FALSE
      [] OTHER -> FALSE

\* A FileChange as the GitHub API returns it (changes = additions + deletions).
FileChange(filename, additions, deletions) ==
    [filename |-> filename, additions |-> additions, deletions |-> deletions,
     changes |-> additions + deletions, status |-> "modified"]

\* A configured FileGroup.
FileGroup(label, patterns, countTowardMetric, ignoreWhitespace) ==
    [label |-> label, patterns |-> patterns,
     countTowardMetric |-> countTowardMetric,
     ignoreWhitespace |-> ignoreWhitespace]

\* The default group: countTowardMetric is the literal true, no patterns.
DefaultGroupConfig(label, ignoreWhitespace) ==
    [label |-> label, countTowardMetric |-> TRUE,
     ignoreWhitespace |-> ignoreWhitespace]

\* A group is referred to by reference: 0 is config.defaultGroup and i >= 1
\* is config.groups[i]. Two groups with equal fields stay distinct objects.
DefaultRef == 0

GroupOf(cfg, ref) == IF ref = DefaultRef THEN cfg.defaultGroup ELSE cfg.groups[ref]

\* The optional third argument: null, undefined, or a Map from filename to
\* whitespace-adjusted counts.
NullCounts == [kind |-> "null"]

UndefinedCounts == [kind |-> "undefined"]

MapCounts(entries) == [kind |-> "map", entries |-> entries]

\* JavaScript truthiness of the lookup argument: only a Map object is truthy.
Truthy(counts) == counts.kind = "map"

\* ------------------------------------------------------------------------
\* calculateDiffSummary
\* ------------------------------------------------------------------------

\* group.patterns.some(pattern => minimatch(file.filename, pattern, ...))
Matches(group, file) ==
    \E j \in 1..Len(group.patterns) : minimatch(file.filename, group.patterns[j])

\* Mutant: the scan does not stop at the first matching group, the last one wins.
RECURSIVE FirstMatchLastWins(_, _, _)
FirstMatchLastWins(groups, file, i) ==
    IF i > Len(groups) THEN DefaultRef
    ELSE LET later == FirstMatchLastWins(groups, file, i + 1)
         IN IF later # DefaultRef THEN later
            ELSE IF Matches(groups[i], file) THEN i ELSE DefaultRef

\* The inner loop over config.groups for one file: the reference of the group
\* the file is pushed to (the first that matches, else the default group).
RECURSIVE FirstMatch(_, _, _)
FirstMatch(groups, file, i) ==
    IF i > Len(groups) THEN DefaultRef
    ELSE IF Matches(groups[i], file) THEN i
    ELSE FirstMatch(groups, file, i + 1)

\* Mutant: no break after a match, the file is pushed to every matching group.
RECURSIVE ClassifyFilesNoBreak(_, _, _, _)
ClassifyFilesNoBreak(fs, cfg, i, map) ==
    IF i > Len(fs) THEN map
    ELSE LET hits == {g \in 1..Len(cfg.groups) : Matches(cfg.groups[g], fs[i])}
             refs == IF hits = {} THEN {DefaultRef} ELSE hits
         IN ClassifyFilesNoBreak(fs, cfg, i + 1,
                [r \in DOMAIN map |->
                    IF r \in refs THEN Append(map[r], fs[i]) ELSE map[r]])

\* Mutant: a file is put at the front of its group's array, not at the end.
RECURSIVE ClassifyFilesUnshift(_, _, _, _)
ClassifyFilesUnshift(fs, cfg, i, map) ==
    IF i > Len(fs) THEN map
    ELSE LET ref == FirstMatch(cfg.groups, fs[i], 1)
         IN ClassifyFilesUnshift(fs, cfg, i + 1,
                [map EXCEPT ![ref] = <<fs[i]>> \o @])

\* The loop over files: groupFilesMap after files i.. have been pushed.
RECURSIVE ClassifyFiles(_, _, _, _)
ClassifyFiles(fs, cfg, i, map) ==
    IF i > Len(fs) THEN map
    ELSE LET ref == FirstMatch(cfg.groups, fs[i], 1)
         IN ClassifyFiles(fs, cfg, i + 1,
                [map EXCEPT ![ref] = Append(@, fs[i])])

\* groupFilesMap initialised with an empty array for every group and the default.
EmptyGroupFilesMap(cfg) == [r \in 0..Len(cfg.groups) |-> <<>>]

\* Mutant: the lookup is consulted whatever the group's ignoreWhitespace flag.
RECURSIVE aggregateLoopAlwaysAdjusted(_, _, _, _, _)
aggregateLoopAlwaysAdjusted(fs, ignoreWhitespace, counts, i, acc) ==
    IF i > Len(fs) THEN acc
    ELSE LET file == fs[i]
             hasAdjusted == /\ Truthy(counts)
                            /\ file.filename \in DOMAIN counts.entries
             adjusted == counts.entries[file.filename]
         IN aggregateLoopAlwaysAdjusted(fs, ignoreWhitespace, counts, i + 1,
              [added |-> acc.added +
                    (IF hasAdjusted THEN adjusted.additions ELSE file.additions),
               removed |-> acc.removed +
                    (IF hasAdjusted THEN adjusted.deletions ELSE file.deletions),
               rawAdded |-> acc.rawAdded + file.additions,
               rawRemoved |-> acc.rawRemoved + file.deletions])

\* Mutant: a file that the lookup does not hold contributes nothing.
RECURSIVE aggregateLoopNoFallback(_, _, _, _, _)
aggregateLoopNoFallback(fs, ignoreWhitespace, counts, i, acc) ==
    IF i > Len(fs) THEN acc
    ELSE LET file == fs[i]
             consult == ignoreWhitespace /\ Truthy(counts)
             hasAdjusted == /\ consult
                            /\ file.filename \in DOMAIN counts.entries
             adjusted == counts.entries[file.filename]
         IN aggregateLoopNoFallback(fs, ignoreWhitespace, counts, i + 1,
              [added |-> acc.added +
                    (IF hasAdjusted THEN adjusted.additions
                     ELSE IF consult THEN 0 ELSE file.additions),
               removed |-> acc.removed +
                    (IF hasAdjusted THEN adjusted.deletions
                     ELSE IF consult THEN 0 ELSE file.deletions),
               rawAdded |-> acc.rawAdded + file.additions,
               rawRemoved |-> acc.rawRemoved + file.deletions])

\* The loop of aggregateGroupLines: adjusted is the Map entry when the group
\* ignores whitespace and a Map was supplied, undefined otherwise; an
\* undefined adjusted falls back to the file's own counts.
RECURSIVE aggregateLoop(_, _, _, _, _)
aggregateLoop(fs, ignoreWhitespace, counts, i, acc) ==
    IF i > Len(fs) THEN acc
    ELSE LET file == fs[i]
             hasAdjusted == /\ ignoreWhitespace
                            /\ Truthy(counts)
                            /\ file.filename \in DOMAIN counts.entries
             adjusted == counts.entries[file.filename]
         IN aggregateLoop(fs, ignoreWhitespace, counts, i + 1,
              [added |-> acc.added +
                    (IF hasAdjusted THEN adjusted.additions ELSE file.additions),
               removed |-> acc.removed +
                    (IF hasAdjusted THEN adjusted.deletions ELSE file.deletions),
               rawAdded |-> acc.rawAdded + file.additions,
               rawRemoved |-> acc.rawRemoved + file.deletions])

aggregateGroupLines(fs, ignoreWhitespace, counts) ==
    aggregateLoop(fs, ignoreWhitespace, counts, 1,
        [added |-> 0, removed |-> 0, rawAdded |-> 0, rawRemoved |-> 0])

\* Mutant: the delta fields are attached whenever adjustment applies, zero or not.
AttachWhitespaceOnlyAlways(entry, ignoreWhitespace, counts, agg) ==
    IF ignoreWhitespace /\ Truthy(counts)
    THEN entry @@ [whitespaceOnlyAddedLines |-> agg.rawAdded - agg.added,
                   whitespaceOnlyRemovedLines |-> agg.rawRemoved - agg.removed]
    ELSE entry

\* Mutant: the delta fields are attached only when both deltas are positive.
AttachWhitespaceOnlyBoth(entry, ignoreWhitespace, counts, agg) ==
    LET wsAdded == agg.rawAdded - agg.added
        wsRemoved == agg.rawRemoved - agg.removed
    IN IF ignoreWhitespace /\ Truthy(counts) /\ wsAdded > 0 /\ wsRemoved > 0
       THEN entry @@ [whitespaceOnlyAddedLines |-> wsAdded,
                      whitespaceOnlyRemovedLines |-> wsRemoved]
       ELSE entry

\* The whitespace-only fields of an entry: set, both together, when the group
\* ignores whitespace, a Map was supplied and wsAdded > 0 || wsRemoved > 0.
AttachWhitespaceOnly(entry, ignoreWhitespace, counts, agg) ==
    LET wsAdded == agg.rawAdded - agg.added
        wsRemoved == agg.rawRemoved - agg.removed
    IN IF ignoreWhitespace /\ Truthy(counts) /\ (wsAdded > 0 \/ wsRemoved > 0)
       THEN entry @@ [whitespaceOnlyAddedLines |-> wsAdded,
                      whitespaceOnlyRemovedLines |-> wsRemoved]
       ELSE entry

\* The GroupedFiles entry of one non-empty group.
GroupedFilesEntry(ref, group, groupFiles, counts) ==
    LET agg == aggregateGroupLines(groupFiles, group.ignoreWhitespace, counts)
    IN AttachWhitespaceOnly(
          [group |-> ref, files |-> groupFiles,
           addedLines |-> agg.added, removedLines |-> agg.removed],
          group.ignoreWhitespace, counts, agg)

\* Mutant: every group is rolled up into the counted totals.
RollUpAllCounted(acc, counted, entry) ==
    [acc EXCEPT !.groupedFiles = Append(@, entry),
                !.addedLines = @ + entry.addedLines,
                !.removedLines = @ + entry.removedLines]

\* Mutant: an uncounted group's removed lines are dropped from the totals.
RollUpDropsUncountedRemoved(acc, counted, entry) ==
    IF counted
    THEN [acc EXCEPT !.groupedFiles = Append(@, entry),
                     !.addedLines = @ + entry.addedLines,
                     !.removedLines = @ + entry.removedLines]
    ELSE [acc EXCEPT !.groupedFiles = Append(@, entry),
                     !.uncountedAddedLines = @ + entry.addedLines]

\* groupedFiles.push(entry) and the roll-up of the entry's reported totals
\* into the counted or into the uncounted totals.
RollUp(acc, counted, entry) ==
    IF counted
    THEN [acc EXCEPT !.groupedFiles = Append(@, entry),
                     !.addedLines = @ + entry.addedLines,
                     !.removedLines = @ + entry.removedLines]
    ELSE [acc EXCEPT !.groupedFiles = Append(@, entry),
                     !.uncountedAddedLines = @ + entry.addedLines,
                     !.uncountedRemovedLines = @ + entry.removedLines]

\* Mutant: empty groups are not skipped.
RECURSIVE ProcessGroupsKeepEmpty(_, _, _, _, _)
ProcessGroupsKeepEmpty(cfg, map, counts, i, acc) ==
    IF i > Len(cfg.groups) THEN acc
    ELSE ProcessGroupsKeepEmpty(cfg, map, counts, i + 1,
            RollUp(acc, cfg.groups[i].countTowardMetric,
                   GroupedFilesEntry(i, cfg.groups[i], map[i], counts)))

\* The loop over the defined groups, in configuration order, skipping the
\* groups that claimed no file; a group's countTowardMetric decides where its
\* totals go.
RECURSIVE ProcessGroups(_, _, _, _, _)
ProcessGroups(cfg, map, counts, i, acc) ==
    IF i > Len(cfg.groups) THEN acc
    ELSE IF Len(map[i]) = 0 THEN ProcessGroups(cfg, map, counts, i + 1, acc)
    ELSE ProcessGroups(cfg, map, counts, i + 1,
            RollUp(acc, cfg.groups[i].countTowardMetric,
                   GroupedFilesEntry(i, cfg.groups[i], map[i], counts)))

\* The default group, processed first when it claimed a file; its totals
\* always go to the counted totals.
ProcessDefault(cfg, map, counts, acc) ==
    IF Len(map[DefaultRef]) > 0
    THEN RollUp(acc, TRUE,
                GroupedFilesEntry(DefaultRef, cfg.defaultGroup,
                                  map[DefaultRef], counts))
    ELSE acc

calculateDiffSummary(fs, cfg, counts) ==
    LET map == ClassifyFiles(fs, cfg, 1, EmptyGroupFilesMap(cfg))
        zero == [groupedFiles |-> <<>>, addedLines |-> 0, removedLines |-> 0,
                 uncountedAddedLines |-> 0, uncountedRemovedLines |-> 0]
        acc == ProcessGroups(cfg, map, counts, 1,
                             ProcessDefault(cfg, map, counts, zero))
    IN [addedLines |-> acc.addedLines,
        removedLines |-> acc.removedLines,
        uncountedAddedLines |-> acc.uncountedAddedLines,
        uncountedRemovedLines |-> acc.uncountedRemovedLines,
        totalFiles |-> Len(fs),
        groupedFiles |-> acc.groupedFiles]

\* ------------------------------------------------------------------------
\* validateGlobPatterns and the messages of run()
\* ------------------------------------------------------------------------

\* A pattern longer than the matcher accepts: the one kind of string its
\* constructor rejects.
TooLongPattern == "a pattern of more than 65536 characters"

\* Such a pattern that also starts with a slash.
TooLongSlashPattern == "a slash and more than 65536 characters"

\* pattern.includes('\\')
ContainsBackslash(pattern) == pattern \in {"docs\\**", "/src\\**"}

\* pattern.startsWith('/')
StartsWithSlash(pattern) == pattern \in {"/src/**", "/src\\**", TooLongSlashPattern}

\* new minimatch.Minimatch(pattern, { dot: true }) throws.
ConstructionThrows(pattern) == pattern \in {TooLongPattern, TooLongSlashPattern}

\* e.message of what the constructor throws.
ConstructionMessage(pattern) == "pattern is too long"

\* The three messages, by the pattern they quote and what they say of it.
BackslashWarning(pattern) ==
    [pattern |-> pattern, says |-> "contains backslashes"]

LeadingSlashWarning(pattern) ==
    [pattern |-> pattern, says |-> "starts with /"]

InvalidPatternWarning(pattern, reason) ==
    [pattern |-> pattern, says |-> "is not a valid glob pattern", reason |-> reason]

\* The two checks made once the constructor has returned.
CheckWarnings(pattern, platform) ==
    (IF ContainsBackslash(pattern) /\ platform # "win32"
     THEN <<BackslashWarning(pattern)>> ELSE <<>>)
    \o (IF StartsWithSlash(pattern) THEN <<LeadingSlashWarning(pattern)>> ELSE <<>>)

\* Mutant: the catch block pushes nothing.
PatternErrorsSilentCatch(pattern, platform) ==
    IF ConstructionThrows(pattern) THEN <<>>
    ELSE CheckWarnings(pattern, platform)

\* The messages pushed for one pattern: the construction error alone when the
\* constructor throws, else the backslash and the leading-slash warnings.
PatternErrors(pattern, platform) ==
    IF ConstructionThrows(pattern)
    THEN <<InvalidPatternWarning(pattern, ConstructionMessage(pattern))>>
    ELSE CheckWarnings(pattern, platform)

RECURSIVE validateGlobPatterns(_, _)
validateGlobPatterns(patterns, platform) ==
    IF patterns = <<>> THEN <<>>
    ELSE PatternErrors(Head(patterns), platform)
         \o validateGlobPatterns(Tail(patterns), platform)

\* The warnings run() logs: validateGlobPatterns over every group, in order.
RECURSIVE PatternWarnings(_, _)
PatternWarnings(groups, platform) ==
    IF groups = <<>> THEN <<>>
    ELSE validateGlobPatterns(Head(groups).patterns, platform)
         \o PatternWarnings(Tail(groups), platform)

\* What an exception caught by run()'s outer handler can carry.
ErrorKinds == {"Bad credentials", "Not Found", "rate limit", "other"}

\* The message the outer catch hands to core.setFailed.
CatchMessage(kind) ==
    CASE kind = "Bad credentials" -> "GitHub token is invalid or lacks required permissions"
      [] kind = "Not Found" -> "Repository or PR not found"
      [] kind = "rate limit" -> "GitHub API rate limit exceeded"
      [] OTHER -> "Action failed"

ParseFailedMessage == "Failed to parse file-groups configuration"

NotPullRequestMessage == "This action can only be run on pull_request events"

\* COMMENT_IDENTIFIER: a comment body is modelled by whether it contains it.
ReportBody == "<!-- lines-changed-summary --> report"

OtherBody == "some other comment"

IncludesIdentifier(body) == body = ReportBody

\* ------------------------------------------------------------------------
\* calculateDiffSummary on patterns the matcher rejects
\* ------------------------------------------------------------------------

\* What a call does: it returns a value or it throws.
Returns(value) == [returned |-> value]

Throws(error) == [threw |-> error]

HasReturned(outcome) == "returned" \in DOMAIN outcome

HasThrown(outcome) == "threw" \in DOMAIN outcome

\* minimatch(file.filename, pattern, { dot: true }) builds the matcher of the
\* pattern for each call, and throws where the constructor does.
MinimatchThrows(pattern) == ConstructionThrows(pattern)

\* What minimatch throws on such a pattern.
MatcherError == [name |-> "TypeError", message |-> "pattern is too long"]

\* group.patterns.some(...) from pattern j on: a call of minimatch throws
\* before any pattern has matched (some stops at the first match).
RECURSIVE SomeThrows(_, _, _)
SomeThrows(patterns, file, j) ==
    IF j > Len(patterns) THEN FALSE
    ELSE IF MinimatchThrows(patterns[j]) THEN TRUE
    ELSE IF minimatch(file.filename, patterns[j]) THEN FALSE
    ELSE SomeThrows(patterns, file, j + 1)

\* The inner loop over config.groups for one file, from group i on: a call of
\* minimatch throws before the break of a matching group.
RECURSIVE ScanThrows(_, _, _)
ScanThrows(groups, file, i) ==
    IF i > Len(groups) THEN FALSE
    ELSE IF SomeThrows(groups[i].patterns, file, 1) THEN TRUE
    ELSE IF Matches(groups[i], file) THEN FALSE
    ELSE ScanThrows(groups, file, i + 1)

\* The loop over files has no try: the first throw leaves calculateDiffSummary.
ClassificationThrows(fs, cfg) ==
    \E k \in DOMAIN fs : ScanThrows(cfg.groups, fs[k], 1)

\* A call of calculateDiffSummary: the summary, or what minimatch threw.
calculateDiffSummaryCall(fs, cfg, counts) ==
    IF ClassificationThrows(fs, cfg) THEN Throws(MatcherError)
    ELSE Returns(calculateDiffSummary(fs, cfg, counts))

\* ------------------------------------------------------------------------
\* State
\* ------------------------------------------------------------------------

VARIABLES
    files,                      \* the FileChange[] handed to calculateDiffSummary
    config,                     \* the FileGroupsConfig
    whitespaceAdjustedCounts,   \* the lookup: null, undefined or a Map
    summary,                    \* the DiffSummary returned
    pc,                         \* where run() stands ("direct": no run, a direct call)
    env,                        \* what run() finds: inputs, event payload, platform
    prComments,                 \* the bodies of the pull request's comments
    calls,                      \* the collaborators run() has called, in order
    failed,                     \* the messages passed to core.setFailed
    warnings,                   \* the messages passed to core.warning
    outputs,                    \* the outputs set with core.setOutput
    comments,                   \* the result of listComments
    args,                       \* the arguments of a direct call of a utility
    result                      \* what that call returned or threw

summaryVars == <<files, config, whitespaceAdjustedCounts, summary>>

runVars == <<pc, env, prComments, calls, failed, warnings, outputs, comments>>

callVars == <<args, result>>

vars == <<files, config, whitespaceAdjustedCounts, summary,
          pc, env, prComments, calls, failed, warnings, outputs, comments,
          args, result>>

\* No summary yet.
NoSummary == [pending |-> TRUE]

\* let config; before parseFileGroups has returned.
NoConfig == [pending |-> TRUE]

\* No utility has been called directly.
NoArgs == [pending |-> TRUE]

\* The call has not completed.
NoResult == [pending |-> TRUE]

NoCall ==
    /\ args = NoArgs
    /\ result = NoResult

\* Sequences of length n over S.
SeqsOfLen(S, n) == [1..n -> S]

SeqsUpTo(S, n) == UNION {SeqsOfLen(S, k) : k \in 0..n}

\* File lists: file names are unique within a run.
DistinctNames(fs) == \A i, j \in 1..Len(fs) : fs[i].filename = fs[j].filename => i = j

LineCounts == 0..MaxLines

\* Pattern lists a configured group may carry.
PatternLists ==
    {<<"**/generated/**">>, <<"**/*.test.ts">>, <<"src/**">>,
     <<"docs/**", "**/*.test.ts">>}

LabelOf(patterns) ==
    CASE patterns = <<"**/generated/**">> -> "Generated"
      [] patterns = <<"**/*.test.ts">> -> "Tests"
      [] patterns = <<"src/**">> -> "Source"
      [] OTHER -> "Docs and tests"

GroupsWith(patternLists, flags) ==
    {FileGroup(LabelOf(p), p, c, w) : p \in patternLists, c \in BOOLEAN, w \in flags}

\* Family 1: any order of any files against any list of groups, no lookup.
ClassifyFileLists ==
    {fs \in SeqsUpTo({FileChange(n, MaxLines, 0) : n \in Filenames}, MaxFiles) :
        DistinctNames(fs)}

ClassifyConfigs ==
    {[groups |-> gs, defaultGroup |-> DefaultGroupConfig("Changed", FALSE)] :
        gs \in SeqsUpTo(GroupsWith(PatternLists, {FALSE}), MaxGroups)}

InitClassify ==
    /\ files \in ClassifyFileLists
    /\ config \in ClassifyConfigs
    /\ whitespaceAdjustedCounts = NullCounts

\* Family 2: two files with any raw counts, any lookup over their names and
\* any flags on the groups that claim them.
LinesFileLists ==
    {<<FileChange("src/generated/api.test.ts", a1, d1),
       FileChange("src/main.ts", a2, d2)>> :
        a1 \in LineCounts, d1 \in LineCounts, a2 \in LineCounts, d2 \in LineCounts}

LinesGroupLists ==
    {<<>>}
    \cup {<<g>> : g \in GroupsWith({<<"src/**">>, <<"**/generated/**">>}, BOOLEAN)}
    \cup {<<g, h>> : g \in GroupsWith({<<"**/*.test.ts">>}, BOOLEAN),
                     h \in GroupsWith({<<"src/**">>}, BOOLEAN)}

LinesConfigs ==
    {[groups |-> gs, defaultGroup |-> DefaultGroupConfig("Changed", w)] :
        gs \in LinesGroupLists, w \in BOOLEAN}

GitLineCounts == [additions : LineCounts, deletions : LineCounts]

\* The Maps over (some of) the names of a file list.
LookupMaps(fs) ==
    {MapCounts(m) :
        m \in UNION {[S -> GitLineCounts] :
                        S \in SUBSET {fs[i].filename : i \in 1..Len(fs)}}}

Lookups(fs) == {NullCounts, UndefinedCounts} \cup LookupMaps(fs)

InitLines ==
    /\ files \in LinesFileLists
    /\ config \in LinesConfigs
    /\ whitespaceAdjustedCounts \in Lookups(files)

\* run() has not been started and reports nothing.
NoRun ==
    /\ env = [pending |-> TRUE]
    /\ prComments = <<>>
    /\ calls = <<>>
    /\ failed = <<>>
    /\ warnings = <<>>
    /\ outputs = <<>>
    /\ comments = <<>>

\* A direct call of calculateDiffSummary on any input of the two families.
Init ==
    /\ InitClassify \/ InitLines
    /\ summary = NoSummary
    /\ pc = "direct"
    /\ NoRun
    /\ NoCall

\* Mutant: the file list is reordered in place while it is classified.
InputsAfterReorderingFiles(fs, cfg, counts) ==
    [files |-> [i \in DOMAIN fs |-> fs[Len(fs) + 1 - i]],
     config |-> cfg,
     whitespaceAdjustedCounts |-> counts]

\* The arguments as the caller finds them after the call: calculateDiffSummary
\* and aggregateGroupLines only read them; every push and set is on an array or
\* Map the call created.
InputsAfterCall(fs, cfg, counts) ==
    [files |-> fs, config |-> cfg, whitespaceAdjustedCounts |-> counts]

\* The call: summary = calculateDiffSummary(files, config, whitespaceAdjustedCounts).
CallCalculateDiffSummary ==
    /\ pc = "direct"
    /\ summary = NoSummary
    /\ summary' = calculateDiffSummary(files, config, whitespaceAdjustedCounts)
    /\ LET after == InputsAfterCall(files, config, whitespaceAdjustedCounts)
       IN /\ files' = after.files
          /\ config' = after.config
          /\ whitespaceAdjustedCounts' = after.whitespaceAdjustedCounts
    /\ UNCHANGED <<runVars, callVars>>

Next == CallCalculateDiffSummary

Spec == Init /\ [][Next]_vars

\* ------------------------------------------------------------------------
\* run()
\* ------------------------------------------------------------------------

\* Most comments a pull request holds before the run.
MaxComments == 2

\* The configurations parseFileGroups returns in the runs modelled.
RunConfigs ==
    {[groups |-> <<>>, defaultGroup |-> DefaultGroupConfig("Changed", FALSE)],
     [groups |-> <<FileGroup("Generated", <<"**/generated/**">>, FALSE, FALSE)>>,
      defaultGroup |-> DefaultGroupConfig("Changed", FALSE)],
     [groups |-> <<FileGroup("Source", <<"src/**">>, TRUE, TRUE)>>,
      defaultGroup |-> DefaultGroupConfig("Changed", FALSE)],
     [groups |-> <<FileGroup("Docs", <<"/src/**", "docs\\**">>, TRUE, FALSE)>>,
      defaultGroup |-> DefaultGroupConfig("Code", TRUE)],
     [groups |-> <<FileGroup("Tests", <<"**/*.test.ts", TooLongPattern>>, TRUE, FALSE)>>,
      defaultGroup |-> DefaultGroupConfig("Changed", FALSE)]}

\* parseFileGroups(fileGroupsYaml, defaultGroupLabel, globalIgnoreWhitespace):
\* it throws, or it returns a configuration.
ParseResults ==
    {[ok |-> FALSE]} \cup {[ok |-> TRUE, config |-> c] : c \in RunConfigs}

\* What octokit.paginate(pulls.listFiles) resolves to.
ApiFileLists ==
    {<<>>,
     <<FileChange("README.md", MaxLines, 0)>>,
     <<FileChange("src/generated/api.test.ts", MaxLines, MaxLines),
       FileChange("src/main.ts", MaxLines, 0)>>}

\* What getGitWhitespaceDiff resolves to: null, or a Map with the counts left
\* once whitespace-only changes are dropped.
GitWhitespaceDiffs(fs) ==
    {NullCounts}
    \cup {MapCounts([n \in {fs[i].filename : i \in 1..Len(fs)} |->
                        [additions |-> a, deletions |-> 0]]) : a \in LineCounts}

InitRun ==
    /\ env \in [tokenSupplied : BOOLEAN,
                parseResult : ParseResults,
                hasPullRequest : BOOLEAN,
                platform : {"linux", "win32"}]
    /\ prComments \in SeqsUpTo({ReportBody, OtherBody}, MaxComments)
    /\ pc = "start"
    /\ files = <<>>
    /\ config = NoConfig
    /\ whitespaceAdjustedCounts = NullCounts
    /\ summary = NoSummary
    /\ calls = <<>>
    /\ failed = <<>>
    /\ warnings = <<>>
    /\ outputs = <<>>
    /\ comments = <<>>
    /\ NoCall

\* Mutant: the outer catch swallows the error and reports nothing.
CaughtSilently(kind) ==
    /\ failed' = failed
    /\ pc' = "done"

\* The outer catch: one core.setFailed, and run() ends.
Caught(kind) ==
    /\ failed' = Append(failed, CatchMessage(kind))
    /\ pc' = "done"

\* Mutant: the handler of a parse failure does not return, run() goes on.
ParseFailureFallsThrough == "validate"

\* Where run() stands after the handler of a parse failure: it returns.
AfterParseFailure == "done"

\* core.getInput('github-token', { required: true }) and the other inputs.
ReadInputs ==
    /\ pc = "start"
    /\ IF env.tokenSupplied
       THEN /\ pc' = "parse"
            /\ UNCHANGED failed
       ELSE Caught("other")
    /\ UNCHANGED <<summaryVars, env, prComments, calls, warnings, outputs, comments, callVars>>

\* config = parseFileGroups(...), inside its own try / catch.
ParseConfig ==
    /\ pc = "parse"
    /\ calls' = Append(calls, "parseFileGroups")
    /\ IF env.parseResult.ok
       THEN /\ config' = env.parseResult.config
            /\ pc' = "validate"
            /\ UNCHANGED failed
       ELSE /\ failed' = Append(failed, ParseFailedMessage)
            /\ pc' = AfterParseFailure
            /\ UNCHANGED config
    /\ UNCHANGED <<files, whitespaceAdjustedCounts, summary,
                   env, prComments, warnings, outputs, comments, callVars>>

\* Mutant: warnings end the run.
AbortOnWarnings(logged) == IF logged # <<>> THEN "done" ELSE "checkEvent"

\* Where run() stands after the loop that logs the warnings: at the check of
\* the event, whatever was logged.
AfterValidation(logged) == "checkEvent"

\* The loop over config.groups: validateGlobPatterns and one core.warning per
\* message. Reading config.groups of an undefined config throws a TypeError.
ValidatePatterns ==
    /\ pc = "validate"
    /\ IF config = NoConfig
       THEN /\ Caught("other")
            /\ UNCHANGED <<calls, warnings>>
       ELSE /\ calls' = calls \o [i \in 1..Len(config.groups) |-> "validateGlobPatterns"]
            /\ warnings' = warnings \o PatternWarnings(config.groups, env.platform)
            /\ pc' = AfterValidation(PatternWarnings(config.groups, env.platform))
            /\ UNCHANGED failed
    /\ UNCHANGED <<summaryVars, env, prComments, outputs, comments, callVars>>

\* Mutant: the branch of a missing pull_request does not return.
EventRejectedFallsThrough == "listFiles"

\* Where run() stands after the branch of a missing pull_request: it returns.
AfterEventRejected == "done"

\* if (!context.payload.pull_request) { core.setFailed(...); return; }
CheckPullRequest ==
    /\ pc = "checkEvent"
    /\ IF env.hasPullRequest
       THEN /\ pc' = "listFiles"
            /\ UNCHANGED failed
       ELSE /\ failed' = Append(failed, NotPullRequestMessage)
            /\ pc' = AfterEventRejected
    /\ UNCHANGED <<summaryVars, env, prComments, calls, warnings, outputs, comments, callVars>>

\* files = await octokit.paginate(octokit.rest.pulls.listFiles, ...)
ListFiles ==
    /\ pc = "listFiles"
    /\ calls' = Append(calls, "listFiles")
    /\ \/ /\ files' \in ApiFileLists
          /\ pc' = "whitespace"
          /\ UNCHANGED failed
       \/ /\ \E kind \in ErrorKinds : Caught(kind)
          /\ UNCHANGED files
    /\ UNCHANGED <<config, whitespaceAdjustedCounts, summary,
                   env, prComments, warnings, outputs, comments, callVars>>

\* Mutant: only the configured groups are looked at, not the default group.
HasIgnoreWhitespaceInGroups(cfg) ==
    \E i \in 1..Len(cfg.groups) : cfg.groups[i].ignoreWhitespace

\* config.defaultGroup.ignoreWhitespace || config.groups.some(g => g.ignoreWhitespace)
HasIgnoreWhitespace(cfg) ==
    \/ cfg.defaultGroup.ignoreWhitespace
    \/ \E i \in 1..Len(cfg.groups) : cfg.groups[i].ignoreWhitespace

\* whitespaceAdjustedCounts = null, replaced by the result of
\* getGitWhitespaceDiff when some group ignores whitespace.
WhitespaceDiff ==
    /\ pc = "whitespace"
    /\ IF HasIgnoreWhitespace(config)
       THEN /\ calls' = Append(calls, "getGitWhitespaceDiff")
            /\ whitespaceAdjustedCounts' \in GitWhitespaceDiffs(files)
       ELSE /\ whitespaceAdjustedCounts' = NullCounts
            /\ UNCHANGED calls
    /\ pc' = "calculate"
    /\ UNCHANGED <<files, config, summary,
                   env, prComments, failed, warnings, outputs, comments, callVars>>

\* summary = calculateDiffSummary(files, config, whitespaceAdjustedCounts)
Calculate ==
    /\ pc = "calculate"
    /\ calls' = Append(calls, "calculateDiffSummary")
    /\ LET outcome == calculateDiffSummaryCall(files, config, whitespaceAdjustedCounts)
       IN IF HasThrown(outcome)
          THEN /\ Caught("other")
               /\ UNCHANGED summary
          ELSE /\ summary' = outcome.returned
               /\ pc' = "setOutputs"
               /\ UNCHANGED failed
    /\ UNCHANGED <<files, config, whitespaceAdjustedCounts,
                   env, prComments, warnings, outputs, comments, callVars>>

\* The five core.setOutput calls.
SetOutputs ==
    /\ pc = "setOutputs"
    /\ outputs' = outputs \o
          << <<"added-lines", summary.addedLines>>,
             <<"removed-lines", summary.removedLines>>,
             <<"uncounted-added-lines", summary.uncountedAddedLines>>,
             <<"uncounted-removed-lines", summary.uncountedRemovedLines>>,
             <<"total-files", summary.totalFiles>> >>
    /\ pc' = "render"
    /\ UNCHANGED <<summaryVars, env, prComments, calls, failed, warnings, comments, callVars>>

\* commentBody = generateCommentBody(summary, commentHeader, owner, repo, ...)
Render ==
    /\ pc = "render"
    /\ calls' = Append(calls, "generateCommentBody")
    /\ pc' = "listComments"
    /\ UNCHANGED <<summaryVars, env, prComments, failed, warnings, outputs, comments, callVars>>

\* The page size of issues.listComments when the request names none (the
\* API's default page, scaled to the model's comment threads).
PerPage == 2

\* One request without page or per_page: the oldest PerPage comments.
FirstPage(all) ==
    SubSeq(all, 1, IF Len(all) < PerPage THEN Len(all) ELSE PerPage)

\* { data: comments } = await octokit.rest.issues.listComments(...): a single
\* request, not octokit.paginate.
ListComments ==
    /\ pc = "listComments"
    /\ calls' = Append(calls, "listComments")
    /\ \/ /\ comments' = FirstPage(prComments)
          /\ pc' = "post"
          /\ UNCHANGED failed
       \/ /\ \E kind \in ErrorKinds : Caught(kind)
          /\ UNCHANGED comments
    /\ UNCHANGED <<summaryVars, env, prComments, warnings, outputs, callVars>>

\* Mutant: no listed comment is ever taken for the report.
ExistingCommentNever(listed) == 0

\* comments.find(comment => comment.body?.includes(COMMENT_IDENTIFIER)):
\* the index of the first such comment, 0 when there is none.
ExistingComment(listed) ==
    IF \E i \in DOMAIN listed : IncludesIdentifier(listed[i])
    THEN CHOOSE i \in DOMAIN listed :
            /\ IncludesIdentifier(listed[i])
            /\ \A j \in DOMAIN listed : IncludesIdentifier(listed[j]) => i <= j
    ELSE 0

\* updateComment on the existing comment, or createComment.
PostComment ==
    /\ pc = "post"
    /\ LET existing == ExistingComment(comments)
           call == IF existing # 0 THEN "updateComment" ELSE "createComment"
       IN /\ calls' = Append(calls, call)
          /\ \/ /\ prComments' = IF existing # 0
                                 THEN [prComments EXCEPT ![existing] = ReportBody]
                                 ELSE Append(prComments, ReportBody)
                /\ pc' = "done"
                /\ UNCHANGED failed
             \/ /\ \E kind \in ErrorKinds : Caught(kind)
                /\ UNCHANGED prComments
    /\ UNCHANGED <<summaryVars, env, warnings, outputs, comments, callVars>>

NextRun ==
    \/ ReadInputs
    \/ ParseConfig
    \/ ValidatePatterns
    \/ CheckPullRequest
    \/ ListFiles
    \/ WhitespaceDiff
    \/ Calculate
    \/ SetOutputs
    \/ Render
    \/ ListComments
    \/ PostComment

SpecRun == InitRun /\ [][NextRun]_vars

\* ------------------------------------------------------------------------
\* Successive runs on the same pull request
\* ------------------------------------------------------------------------

\* Longest comment thread from which a further run is started.
MaxThread == 4

\* The comments of the thread that contain COMMENT_IDENTIFIER.
ReportComments == {i \in DOMAIN prComments : IncludesIdentifier(prComments[i])}

\* The workflow triggers again on the same pull request: a fresh run(), with
\* whatever inputs and payload it finds, on the thread the earlier runs left.
Rerun ==
    /\ pc = "done"
    /\ Len(prComments) < MaxThread
    /\ env' \in [tokenSupplied : BOOLEAN,
                 parseResult : ParseResults,
                 hasPullRequest : BOOLEAN,
                 platform : {"linux", "win32"}]
    /\ pc' = "start"
    /\ files' = <<>>
    /\ config' = NoConfig
    /\ whitespaceAdjustedCounts' = NullCounts
    /\ summary' = NoSummary
    /\ calls' = <<>>
    /\ failed' = <<>>
    /\ warnings' = <<>>
    /\ outputs' = <<>>
    /\ comments' = <<>>
    /\ UNCHANGED <<prComments, callVars>>

\* The first run finds a thread that holds at most one report comment.
InitRuns ==
    /\ InitRun
    /\ Cardinality(ReportComments) <= 1

NextRuns ==
    \/ NextRun
    \/ Rerun

SpecRuns == InitRuns /\ [][NextRuns]_vars

\* ------------------------------------------------------------------------
\* parseFileGroups
\* ------------------------------------------------------------------------

\* Longest top-level list yaml.load hands to the group loop.
MaxEntries == 2

\* The values yaml.load produces. A string is the sequence of its characters.
Undefined == [t |-> "undefined"]

Null == [t |-> "null"]

Str(chars) == [t |-> "string", chars |-> chars]

Num(n) == [t |-> "number", n |-> n]

Bool(b) == [t |-> "boolean", b |-> b]

Arr(items) == [t |-> "array", items |-> items]

\* A mapping read as a RawGroupDefinition; a key it lacks reads as Undefined.
RawGroupDefinition(label, patterns, count, ignoreWhitespace) ==
    [t |-> "object", label |-> label, patterns |-> patterns, count |-> count,
     ignore_whitespace |-> ignoreWhitespace]

IsString(v) == v.t = "string"

IsBoolean(v) == v.t = "boolean"

IsArray(v) == v.t = "array"

\* The characters String.prototype.trim strips (those the inputs use).
WhiteSpace == {" ", "\t", "\n"}

RECURSIVE TrimStart(_)
TrimStart(chars) ==
    IF chars # <<>> /\ Head(chars) \in WhiteSpace
    THEN TrimStart(Tail(chars))
    ELSE chars

RECURSIVE TrimEnd(_)
TrimEnd(chars) ==
    IF chars # <<>> /\ chars[Len(chars)] \in WhiteSpace
    THEN TrimEnd(SubSeq(chars, 1, Len(chars) - 1))
    ELSE chars

\* Mutant: only leading white space is stripped.
TrimLeadingOnly(chars) == TrimStart(chars)

\* String.prototype.trim
Trim(chars) == TrimEnd(TrimStart(chars))

\* The errors parseFileGroups throws, by what their messages name.
InvalidYamlError == [name |-> "Error", about |-> "Invalid YAML in file-groups input"]

NotAnArrayError == [name |-> "Error", about |-> "file-groups must be a YAML array"]

LabelError(groupNum) ==
    [name |-> "Error", group |-> groupNum, field |-> "label"]

PatternsError(groupNum, label) ==
    [name |-> "Error", group |-> groupNum, label |-> label, field |-> "patterns"]

PatternError(groupNum, label, j) ==
    [name |-> "Error", group |-> groupNum, label |-> label, field |-> "pattern",
     index |-> j]

CountError(groupNum, label) ==
    [name |-> "Error", group |-> groupNum, label |-> label, field |-> "count"]

IgnoreWhitespaceError(groupNum, label) ==
    [name |-> "Error", group |-> groupNum, label |-> label,
     field |-> "ignore-whitespace"]

\* Reading a property of null: the runtime's TypeError, not an Error of the
\* parser.
NullPropertyError(property) == [name |-> "TypeError", reading |-> property]

\* raw.label, raw.patterns, ... on an entry that is not null: the key's value
\* on a mapping, undefined on a scalar or a list.
Prop(raw, key) == IF raw.t = "object" THEN raw[key] ELSE Undefined

\* const groupNum = i + 1
GroupNum(i) == i + 1

\* The loop over raw.patterns from index j on: the trimmed patterns, or the
\* error of the first entry that is not a non-empty string.
RECURSIVE ParsePatterns(_, _, _, _, _)
ParsePatterns(items, groupNum, label, j, patterns) ==
    IF j >= Len(items) THEN Returns(patterns)
    ELSE LET pattern == items[j + 1]
         IN IF ~IsString(pattern) \/ Trim(pattern.chars) = <<>>
            THEN Throws(PatternError(groupNum, label, j))
            ELSE ParsePatterns(items, groupNum, label, j + 1,
                               Append(patterns, Trim(pattern.chars)))

\* Mutant: a group without count does not count toward the metric.
CountAbsentIsFalse == FALSE

\* let countTowardMetric = true
CountDefault == TRUE

\* The flag of a group that has no ignore-whitespace key: the global flag the
\* parser was given.
InheritedIgnoreWhitespace(globalIgnoreWhitespace) == globalIgnoreWhitespace

\* Mutant: the global flag wins over the group's own flag.
IgnoreWhitespaceGlobalWins(flag, globalIgnoreWhitespace) ==
    InheritedIgnoreWhitespace(globalIgnoreWhitespace)

\* ignoreWhitespace of a group whose ignore-whitespace is absent or a boolean.
IgnoreWhitespaceOf(flag, globalIgnoreWhitespace) ==
    IF flag # Undefined THEN flag.b
    ELSE InheritedIgnoreWhitespace(globalIgnoreWhitespace)

\* One turn of the loop over parsed: the FileGroup of entry i, or the first
\* error its checks throw.
ParseGroup(raw, i, globalIgnoreWhitespace) ==
    LET groupNum == GroupNum(i)
        label == Prop(raw, "label")
        rawPatterns == Prop(raw, "patterns")
        count == Prop(raw, "count")
        flag == Prop(raw, "ignore_whitespace")
    IN IF raw.t \in {"null", "undefined"} THEN Throws(NullPropertyError("label"))
       ELSE IF ~IsString(label) \/ Trim(label.chars) = <<>>
       THEN Throws(LabelError(groupNum))
       ELSE IF ~IsArray(rawPatterns) \/ Len(rawPatterns.items) = 0
       THEN Throws(PatternsError(groupNum, label.chars))
       ELSE LET parsedPatterns ==
                    ParsePatterns(rawPatterns.items, groupNum, label.chars, 0, <<>>)
            IN IF HasThrown(parsedPatterns) THEN parsedPatterns
               ELSE IF count # Undefined /\ ~IsBoolean(count)
               THEN Throws(CountError(groupNum, label.chars))
               ELSE IF flag # Undefined /\ ~IsBoolean(flag)
               THEN Throws(IgnoreWhitespaceError(groupNum, label.chars))
               ELSE Returns(FileGroup(
                        Trim(label.chars),
                        parsedPatterns.returned,
                        IF count # Undefined THEN count.b ELSE CountDefault,
                        IgnoreWhitespaceOf(flag, globalIgnoreWhitespace)))

\* for (let i = 0; i < parsed.length; i++): the groups pushed, or the first
\* error thrown.
RECURSIVE ParseGroups(_, _, _, _)
ParseGroups(parsed, i, globalIgnoreWhitespace, groups) ==
    IF i >= Len(parsed) THEN Returns(groups)
    ELSE LET group == ParseGroup(parsed[i + 1], i, globalIgnoreWhitespace)
         IN IF HasThrown(group) THEN group
            ELSE ParseGroups(parsed, i + 1, globalIgnoreWhitespace,
                             Append(groups, group.returned))

\* The file-groups text, by what the parser and yaml.load make of it: blank,
\* rejected by yaml.load, or loaded as a value.
BlankYaml == [text |-> "blank"]

InvalidYaml == [text |-> "invalid"]

LoadedYaml(parsed) == [text |-> "loaded", parsed |-> parsed]

parseFileGroups(fileGroupsYaml, defaultGroupLabel, globalIgnoreWhitespace) ==
    LET defaultGroup ==
            DefaultGroupConfig(
                IF defaultGroupLabel = "" THEN "Changed" ELSE defaultGroupLabel,
                InheritedIgnoreWhitespace(globalIgnoreWhitespace))
    IN IF fileGroupsYaml = BlankYaml
       THEN Returns([groups |-> <<>>, defaultGroup |-> defaultGroup])
       ELSE IF fileGroupsYaml = InvalidYaml THEN Throws(InvalidYamlError)
       ELSE IF ~IsArray(fileGroupsYaml.parsed) THEN Throws(NotAnArrayError)
       ELSE LET groups == ParseGroups(fileGroupsYaml.parsed.items, 0,
                                      globalIgnoreWhitespace, <<>>)
            IN IF HasThrown(groups) THEN groups
               ELSE Returns([groups |-> groups.returned,
                              defaultGroup |-> defaultGroup])

\* Entries of the top-level list. Those that differ in which checks they
\* fail: every combination of a good or bad label, patterns, count and
\* ignore-whitespace.
OrderEntries ==
    {RawGroupDefinition(l, p, c, w) :
        l \in {Str(<<"A">>), Str(<<" ">>)},
        p \in {Arr(<<Str(<<"x">>)>>), Arr(<<>>), Arr(<<Num(1), Str(<<>>)>>)},
        c \in {Undefined, Str(<<"y", "e", "s">>)},
        w \in {Undefined, Num(1)}}

\* Valid entries: a label and patterns with white space around them, and
\* every way of giving or omitting the two flags.
ValueEntries ==
    {RawGroupDefinition(Str(<<" ", "B", " ", "b", "\t">>),
                        Arr(<<Str(<<" ", "y", " ">>), Str(<<"x">>)>>), c, w) :
        c \in {Undefined, Bool(TRUE), Bool(FALSE)},
        w \in {Undefined, Bool(TRUE), Bool(FALSE)}}

\* Entries that are no mapping, and mappings with one field of the wrong kind.
EdgeEntries ==
    {Null, Num(7), Str(<<"x">>), Arr(<<>>)}
    \cup {RawGroupDefinition(l, Arr(<<Str(<<"x">>)>>), Undefined, Undefined) :
            l \in {Undefined, Num(1), Str(<<>>)}}
    \cup {RawGroupDefinition(Str(<<"A">>), p, Undefined, Undefined) :
            p \in {Undefined, Str(<<"x">>), Arr(<<Str(<<"x">>), Str(<<" ">>)>>)}}
    \cup {RawGroupDefinition(Str(<<"A">>), Arr(<<Str(<<"x">>)>>), Null, Undefined)}

RawEntries == OrderEntries \cup ValueEntries \cup EdgeEntries

\* The file-groups input: blank, not YAML, a mapping instead of a list, or a
\* list of entries.
YamlInputs ==
    {BlankYaml, InvalidYaml,
     LoadedYaml(RawGroupDefinition(Str(<<"A">>), Arr(<<Str(<<"x">>)>>),
                                   Undefined, Undefined))}
    \cup {LoadedYaml(Arr(entries)) : entries \in SeqsUpTo(RawEntries, MaxEntries)}

\* Every variable of run() and of calculateDiffSummary at rest.
NoSummaryCall ==
    /\ files = <<>>
    /\ config = NoConfig
    /\ whitespaceAdjustedCounts = NullCounts
    /\ summary = NoSummary

InitParse ==
    /\ args \in [fileGroupsYaml : YamlInputs,
                 defaultGroupLabel : {"", "Other"},
                 globalIgnoreWhitespace : BOOLEAN]
    /\ result = NoResult
    /\ pc = "parseFileGroups"
    /\ NoSummaryCall
    /\ NoRun

\* The call: parseFileGroups(fileGroupsYaml, defaultGroupLabel, globalIgnoreWhitespace).
CallParseFileGroups ==
    /\ pc = "parseFileGroups"
    /\ result = NoResult
    /\ result' = parseFileGroups(args.fileGroupsYaml, args.defaultGroupLabel,
                                 args.globalIgnoreWhitespace)
    /\ UNCHANGED <<summaryVars, runVars, args>>

NextParse == CallParseFileGroups

SpecParse == InitParse /\ [][NextParse]_vars

\* ------------------------------------------------------------------------
\* generateDiffSquares
\* ------------------------------------------------------------------------

\* Largest additions / deletions count handed to generateDiffSquares.
MaxCount == 10

\* The three characters of the indicator.
GreenSquare == "green square"

RedSquare == "red square"

EmptySquare == "white small square"

\* String.prototype.repeat: count copies of one character.
Repeat(unit, count) == [i \in 1..count |-> unit]

\* Mutant: the fraction is dropped instead of rounded.
MathFloor(num, den) == num \div den

\* Math.round of the non-negative quotient num / den: the nearest integer,
\* a half going up. (additions / total) * 5 is computed in doubles; its error
\* is far below the distance from any quotient of counts this size to the
\* nearest half other than the halves themselves, which come out exact.
MathRound(num, den) == (2 * num + den) \div (2 * den)

generateDiffSquares(additions, deletions) ==
    LET total == additions + deletions
        greenSquares == MathRound(additions * 5, total)
        redSquares == 5 - greenSquares
    IN IF total = 0
       THEN Repeat(EmptySquare, 5)
       ELSE Repeat(GreenSquare, greenSquares) \o Repeat(RedSquare, redSquares)

InitSquares ==
    /\ args \in [additions : 0..MaxCount, deletions : 0..MaxCount]
    /\ result = NoResult
    /\ pc = "generateDiffSquares"
    /\ NoSummaryCall
    /\ NoRun

\* The call: generateDiffSquares(additions, deletions).
CallGenerateDiffSquares ==
    /\ pc = "generateDiffSquares"
    /\ result = NoResult
    /\ result' = Returns(generateDiffSquares(args.additions, args.deletions))
    /\ UNCHANGED <<summaryVars, runVars, args>>

NextSquares == CallGenerateDiffSquares

SpecSquares == InitSquares /\ [][NextSquares]_vars

\* ------------------------------------------------------------------------
\* validateGlobPatterns, called directly
\* ------------------------------------------------------------------------

\* Longest list of patterns handed to validateGlobPatterns.
MaxPatterns == 3

\* Patterns that pass every check, fail one, fail two, or break the matcher.
ValidatorPatterns ==
    {"**/generated/**", "/src/**", "docs\\**", "/src\\**", TooLongPattern,
     TooLongSlashPattern}

InitValidate ==
    /\ args \in [patterns : SeqsUpTo(ValidatorPatterns, MaxPatterns),
                 platform : {"linux", "win32"}]
    /\ result = NoResult
    /\ pc = "validateGlobPatterns"
    /\ NoSummaryCall
    /\ NoRun

\* The call: validateGlobPatterns(patterns), on the platform of the process.
CallValidateGlobPatterns ==
    /\ pc = "validateGlobPatterns"
    /\ result = NoResult
    /\ result' = Returns(validateGlobPatterns(args.patterns, args.platform))
    /\ UNCHANGED <<summaryVars, runVars, args>>

NextValidate == CallValidateGlobPatterns

SpecValidate == InitValidate /\ [][NextValidate]_vars

\* ------------------------------------------------------------------------
\* calculateDiffSummary, called with patterns the matcher rejects
\* ------------------------------------------------------------------------

\* Pattern lists with a rejected pattern alone, before, after and without a
\* sound one.
MatcherPatternLists ==
    {<<TooLongPattern>>, <<"src/**", TooLongPattern>>, <<TooLongPattern, "src/**">>,
     <<"docs/**", TooLongPattern>>, <<"**/*.test.ts">>}

MatcherConfigs ==
    {[groups |-> gs, defaultGroup |-> DefaultGroupConfig("Changed", FALSE)] :
        gs \in SeqsUpTo({FileGroup("Group", p, TRUE, FALSE) : p \in MatcherPatternLists},
                        MaxGroups)}

InitMatcher ==
    /\ files \in ClassifyFileLists
    /\ config \in MatcherConfigs
    /\ whitespaceAdjustedCounts = NullCounts
    /\ summary = NoSummary
    /\ pc = "calculateDiffSummary"
    /\ NoRun
    /\ NoCall

\* The call: calculateDiffSummary(files, config, whitespaceAdjustedCounts).
CallWithRejectedPatterns ==
    /\ pc = "calculateDiffSummary"
    /\ result = NoResult
    /\ result' = calculateDiffSummaryCall(files, config, whitespaceAdjustedCounts)
    /\ UNCHANGED <<summaryVars, runVars, args>>

NextMatcher == CallWithRejectedPatterns

SpecMatcher == InitMatcher /\ [][NextMatcher]_vars

\* ------------------------------------------------------------------------
\* generateCommentBody
\* ------------------------------------------------------------------------

COMMENT_IDENTIFIER == "<!-- lines-changed-summary -->"

\* text.includes(COMMENT_IDENTIFIER), on the texts a body is made of.
Includes(text) == text = COMMENT_IDENTIFIER

\* The body is the concatenation of its pieces; a piece that shows a text of
\* the caller (header, label, pattern, file name) shows it as it is.
IdentifierPiece == [piece |-> "identifier", text |-> COMMENT_IDENTIFIER]

HeaderPiece(header) == [piece |-> "header", text |-> header]

HeadlinePiece(sum) ==
    [piece |-> "headline",
     squares |-> generateDiffSquares(sum.addedLines, sum.removedLines),
     addedLines |-> sum.addedLines, removedLines |-> sum.removedLines]

SectionPiece(group, fileCount, percentage) ==
    [piece |-> "section", text |-> group.label, fileCount |-> fileCount,
     percentage |-> percentage, counted |-> group.countTowardMetric]

PatternPiece(pattern) == [piece |-> "pattern", text |-> pattern]

\* generateFileDiffUrl: owner, repository and number, and an anchor made of
\* hexadecimal digits of a digest of the file name.
generateFileDiffUrl(filename) == [anchorOf |-> filename]

RowPiece(file) ==
    [piece |-> "row", text |-> file.filename, link |-> generateFileDiffUrl(file.filename),
     additions |-> file.additions, deletions |-> file.deletions]

AttributionPiece == [piece |-> "attribution"]

\* Mutant: a file goes in front of the files with as many changes.
RECURSIVE InsertBeforeTies(_, _)
InsertBeforeTies(sorted, file) ==
    IF sorted = <<>> THEN <<file>>
    ELSE IF Head(sorted).changes > file.changes
    THEN <<Head(sorted)>> \o InsertBeforeTies(Tail(sorted), file)
    ELSE <<file>> \o sorted

\* The place of one more file under (a, b) => b.changes - a.changes, the sort
\* being stable: behind every file with at least as many changes.
RECURSIVE InsertByChanges(_, _)
InsertByChanges(sorted, file) ==
    IF sorted = <<>> THEN <<file>>
    ELSE IF Head(sorted).changes >= file.changes
    THEN <<Head(sorted)>> \o InsertByChanges(Tail(sorted), file)
    ELSE <<file>> \o sorted

\* [...files].sort((a, b) => b.changes - a.changes), from file i on.
RECURSIVE SortByChanges(_, _, _)
SortByChanges(fs, i, sorted) ==
    IF i > Len(fs) THEN sorted
    ELSE SortByChanges(fs, i + 1, InsertByChanges(sorted, fs[i]))

RECURSIVE Rows(_)
Rows(sortedFiles) ==
    IF sortedFiles = <<>> THEN <<>>
    ELSE <<RowPiece(Head(sortedFiles))>> \o Rows(Tail(sortedFiles))

RECURSIVE PatternPieces(_)
PatternPieces(patterns) ==
    IF patterns = <<>> THEN <<>>
    ELSE <<PatternPiece(Head(patterns))>> \o PatternPieces(Tail(patterns))

\* The share of a group in all changed lines, counted or not, in percent.
GroupPercentage(sum, entry) ==
    LET total == sum.addedLines + sum.removedLines
                 + sum.uncountedAddedLines + sum.uncountedRemovedLines
    IN IF total > 0
       THEN MathRound((entry.addedLines + entry.removedLines) * 100, total)
       ELSE 0

\* The collapsible sections of the entries from e on: none for an entry
\* without files; the pattern list for configured groups only.
RECURSIVE Sections(_, _, _)
Sections(sum, cfg, e) ==
    IF e > Len(sum.groupedFiles) THEN <<>>
    ELSE LET entry == sum.groupedFiles[e]
             group == GroupOf(cfg, entry.group)
         IN (IF entry.files = <<>> THEN <<>>
             ELSE <<SectionPiece(group, Len(entry.files), GroupPercentage(sum, entry))>>
                  \o (IF entry.group = DefaultRef THEN <<>>
                      ELSE PatternPieces(group.patterns))
                  \o Rows(SortByChanges(entry.files, 1, <<>>)))
            \o Sections(sum, cfg, e + 1)

\* The body: the identifier, the header, the headline, the sections and the
\* attribution. cfg holds the groups the entries of the summary refer to.
generateCommentBody(sum, header, cfg) ==
    <<IdentifierPiece, HeaderPiece(header), HeadlinePiece(sum)>>
    \o Sections(sum, cfg, 1)
    \o <<AttributionPiece>>

\* A file named like the identifier: any string without a slash is a file name.
RenderFilenames == {"src/main.ts", "README.md", COMMENT_IDENTIFIER}

\* The longest file list a body is made from.
MaxRows == 3

RenderFileLists ==
    {fs \in SeqsUpTo({FileChange(n, a, d) :
                         n \in RenderFilenames, a \in LineCounts, d \in LineCounts},
                     MaxRows) :
        DistinctNames(fs)}

RenderConfigs ==
    {[groups |-> gs, defaultGroup |-> DefaultGroupConfig("Changed", FALSE)] :
        gs \in {<<>>}
               \cup {<<FileGroup(l, <<"src/**">>, c, FALSE)>> :
                       l \in {"Source", COMMENT_IDENTIFIER}, c \in BOOLEAN}}

\* The comment-header input: none, a title, or a text with the identifier.
Headers == {"", "## Code Changes Summary", COMMENT_IDENTIFIER}

\* Mutant: the files of the summary are sorted where they are.
SummaryAfterSortInPlace(sum) ==
    [sum EXCEPT !.groupedFiles =
        [e \in DOMAIN sum.groupedFiles |->
            [sum.groupedFiles[e] EXCEPT
                !.files = SortByChanges(sum.groupedFiles[e].files, 1, <<>>)]]]

\* The summary after the body was made: the sort is on a copy of each list.
SummaryAfterRender(sum) == sum

InitRender ==
    /\ files \in RenderFileLists
    /\ config \in RenderConfigs
    /\ whitespaceAdjustedCounts = NullCounts
    /\ summary = calculateDiffSummary(files, config, whitespaceAdjustedCounts)
    /\ args \in [header : Headers]
    /\ result = NoResult
    /\ pc = "generateCommentBody"
    /\ NoRun

\* The call: generateCommentBody(summary, commentHeader, owner, repo, ...).
CallGenerateCommentBody ==
    /\ pc = "generateCommentBody"
    /\ result = NoResult
    /\ result' = Returns(generateCommentBody(summary, args.header, config))
    /\ summary' = SummaryAfterRender(summary)
    /\ UNCHANGED <<files, config, whitespaceAdjustedCounts, runVars, args>>

NextRender == CallGenerateCommentBody

SpecRender == InitRender /\ [][NextRender]_vars

\* ------------------------------------------------------------------------
\* getGitWhitespaceDiff
\* ------------------------------------------------------------------------

\* Most lines of the output of git diff --numstat.
MaxOutputLines == 2

\* parseInt(text, 10) of the count fields modelled: "-" marks a binary file.
IsNaN(text) == text \in {"-", "x"}

ParseInt(text) ==
    CASE text = "0" -> 0
      [] text = "1" -> 1
      [] text = "1x" -> 1

\* The new name of a renamed file; any other name as it is.
ResolvedFilename(filename) ==
    CASE filename = "old.ts => new.ts" -> "new.ts"
      [] filename = "src/{old => new}/a.ts" -> "src/new/a.ts"
      [] OTHER -> filename

\* result.set(key, value)
MapSet(entries, key, value) ==
    [k \in DOMAIN entries \cup {key} |-> IF k = key THEN value ELSE entries[k]]

EmptyMap == [k \in {} |-> 0]

\* A line of the output is modelled trimmed and split at the tabs: <<"">> is
\* a blank line. The loop of parseGitNumstat from line i on.
RECURSIVE ParseLines(_, _, _)
ParseLines(lines, i, entries) ==
    IF i > Len(lines) THEN entries
    ELSE LET parts == lines[i]
         IN IF parts = <<"">> \/ Len(parts) < 3
            THEN ParseLines(lines, i + 1, entries)
            ELSE IF (parts[1] = "-" /\ parts[2] = "-") \/ IsNaN(parts[1]) \/ IsNaN(parts[2])
            THEN ParseLines(lines, i + 1, entries)
            ELSE ParseLines(lines, i + 1,
                            MapSet(entries, ResolvedFilename(parts[3]),
                                   [additions |-> ParseInt(parts[1]),
                                    deletions |-> ParseInt(parts[2])]))

parseGitNumstat(output) == MapCounts(ParseLines(output, 1, EmptyMap))

NoCheckoutWarning == "No git checkout detected. Whitespace-adjusted counts are unavailable."

\* error instanceof Error ? error.message : 'unknown error'
DiffFailedWarning(error) ==
    [says |-> "Failed to get whitespace-adjusted diff",
     message |-> IF error.isError THEN error.message ELSE "unknown error"]

\* Mutant: an error of git fetch leaves the inner try as it came.
FetchErrorEscapes(fetch) == fetch

\* The inner try / catch around git fetch: the catch is empty, so the
\* statement completes whatever execSync did.
FetchStatement(fetch) == Returns("")

\* getGitWhitespaceDiff(baseSha, headSha) in a surrounding where .git exists or
\* not and where git fetch and git diff do what `git` says: what it returns,
\* the git commands it ran and the warnings it logged.
getGitWhitespaceDiff(git) ==
    IF ~git.checkout
    THEN [outcome |-> Returns(NullCounts), commands |-> <<>>,
          logged |-> <<NoCheckoutWarning>>]
    ELSE LET fetched == FetchStatement(git.fetch)
         IN IF HasThrown(fetched)
            THEN [outcome |-> Returns(NullCounts), commands |-> <<"git fetch">>,
                  logged |-> <<DiffFailedWarning(fetched.threw)>>]
            ELSE IF HasThrown(git.diff)
            THEN [outcome |-> Returns(NullCounts), commands |-> <<"git fetch", "git diff">>,
                  logged |-> <<DiffFailedWarning(git.diff.threw)>>]
            ELSE [outcome |-> Returns(parseGitNumstat(git.diff.returned)),
                  commands |-> <<"git fetch", "git diff">>,
                  logged |-> <<>>]

\* What execSync throws: an Error of child_process, or (a mock) anything else.
GitErrors(message) == {[isError |-> TRUE, message |-> message], [isError |-> FALSE]}

NumstatLines ==
    {<<"">>, <<"1", "0">>}
    \cup {<<a, d, f>> : a \in {"1", "-", "x"}, d \in {"0", "-", "1x"},
                        f \in {"src/main.ts", "old.ts => new.ts", "src/{old => new}/a.ts"}}

NumstatOutputs == SeqsUpTo(NumstatLines, MaxOutputLines)

GitSurroundings ==
    [checkout : BOOLEAN,
     fetch : {Returns("")} \cup {Throws(e) : e \in GitErrors("fetch failed")},
     diff : {Returns(o) : o \in NumstatOutputs}
            \cup {Throws(e) : e \in GitErrors("diff failed")}]

InitGit ==
    /\ args \in GitSurroundings
    /\ result = NoResult
    /\ pc = "getGitWhitespaceDiff"
    /\ files = <<>>
    /\ config = NoConfig
    /\ whitespaceAdjustedCounts = NullCounts
    /\ summary = NoSummary
    /\ NoRun

\* The call: await getGitWhitespaceDiff(baseSha, headSha).
CallGetGitWhitespaceDiff ==
    /\ pc = "getGitWhitespaceDiff"
    /\ result = NoResult
    /\ LET call == getGitWhitespaceDiff(args)
       IN /\ result' = call.outcome
          /\ calls' = calls \o call.commands
          /\ warnings' = warnings \o call.logged
    /\ UNCHANGED <<summaryVars, pc, env, prComments, failed, outputs, comments, args>>

NextGit == CallGetGitWhitespaceDiff

SpecGit == InitGit /\ [][NextGit]_vars

\* ------------------------------------------------------------------------
\* Properties of run()
\* ------------------------------------------------------------------------

\* parseFileGroups has been called and has thrown.
ParseFailed == calls # <<>> /\ ~env.parseResult.ok

\* C10 (Configuration errors stop the run): once parseFileGroups has failed,
\* core.setFailed has been called exactly once, with the parse message, and
\* run() is over: nothing but parseFileGroups was ever called, no output is
\* set, no warning logged and the pull request's comments are untouched.
C10_ConfigErrorStopsRun ==
    ParseFailed =>
        /\ pc = "done"
        /\ failed = <<ParseFailedMessage>>
        /\ calls = <<"parseFileGroups">>
        /\ outputs = <<>>
        /\ warnings = <<>>
        /\ files = <<>>
        /\ summary = NoSummary
        /\ comments = <<>>

\* A run whose configuration did not parse has ended, on a pull request event
\* that already holds a report comment.
C10_Witness ==
    /\ ParseFailed
    /\ pc = "done"
    /\ Len(failed) = 1
    /\ env.hasPullRequest
    /\ \E i \in DOMAIN prComments : IncludesIdentifier(prComments[i])

C11_SingleReportComment == Cardinality(ReportComments) <= 1

\* ------------------------------------------------------------------------
\* Properties of calculateDiffSummary
\* ------------------------------------------------------------------------

Returned == summary # NoSummary

\* Positions <<e, k>> of the returned summary: file k of entry e.
Positions ==
    UNION {{<<e, k>> : k \in DOMAIN summary.groupedFiles[e].files} :
              e \in DOMAIN summary.groupedFiles}

FileAt(pos) == summary.groupedFiles[pos[1]].files[pos[2]]

\* The configured groups whose patterns match a file, by position.
MatchingGroups(file) ==
    {g \in 1..Len(config.groups) : Matches(config.groups[g], file)}

\* The group a file belongs to under first-match-wins, stated without the scan.
ExpectedRef(file) ==
    IF MatchingGroups(file) = {} THEN DefaultRef
    ELSE CHOOSE g \in MatchingGroups(file) : \A h \in MatchingGroups(file) : g <= h

\* C1 (Exclusivity): every input file occupies exactly one position of the
\* returned groupedFiles, and every position holds an input file.
C1_Exclusivity ==
    Returned =>
        /\ \A i \in DOMAIN files :
              Cardinality({pos \in Positions : FileAt(pos) = files[i]}) = 1
        /\ \A pos \in Positions : \E i \in DOMAIN files : FileAt(pos) = files[i]
        /\ Cardinality(Positions) = Len(files)

\* A file matched by two configured groups has been classified, next to
\* another file, into two entries.
C1_Witness ==
    /\ Returned
    /\ Len(summary.groupedFiles) = 2
    /\ Len(files) = 2
    /\ \E i \in DOMAIN files : Cardinality(MatchingGroups(files[i])) = 2

\* C2 (First-match-wins): every input file sits in the entry of the earliest
\* configured group with a matching pattern, and in the default group's entry
\* exactly when no configured group matches.
C2_FirstMatchWins ==
    Returned =>
        /\ \A i \in DOMAIN files :
              \E pos \in Positions :
                 /\ FileAt(pos) = files[i]
                 /\ summary.groupedFiles[pos[1]].group = ExpectedRef(files[i])
        /\ \A pos \in Positions :
              LET ref == summary.groupedFiles[pos[1]].group
              IN /\ ref = DefaultRef <=> MatchingGroups(FileAt(pos)) = {}
                 /\ ref # DefaultRef =>
                       /\ ref \in MatchingGroups(FileAt(pos))
                       /\ \A g \in MatchingGroups(FileAt(pos)) : ref <= g

\* A file that two groups match was given to the earlier one, although the
\* later one matches it too.
C2_Witness ==
    /\ Returned
    /\ \E pos \in Positions :
          /\ summary.groupedFiles[pos[1]].group = 1
          /\ MatchingGroups(FileAt(pos)) = {1, 2}
          /\ config.groups[1].patterns # config.groups[2].patterns

\* C3 (Output order): the entries' groups are the default group first and then
\* configured groups in configuration order, no entry is empty, and a group
\* has an entry exactly when it claimed a file.
C3_OutputOrder ==
    Returned =>
        LET gf == summary.groupedFiles
        IN /\ \A e \in DOMAIN gf : gf[e].group \in 0..Len(config.groups)
           /\ \A e, f \in DOMAIN gf : e < f => gf[e].group < gf[f].group
           /\ \A e \in DOMAIN gf : Len(gf[e].files) > 0
           /\ \A ref \in 0..Len(config.groups) :
                 (\E e \in DOMAIN gf : gf[e].group = ref)
                    <=> (\E i \in DOMAIN files : ExpectedRef(files[i]) = ref)

\* The default group and the second configured group have entries, the first
\* configured group claimed nothing and has none.
C3_Witness ==
    /\ Returned
    /\ Len(config.groups) = 2
    /\ Len(summary.groupedFiles) = 2
    /\ summary.groupedFiles[1].group = DefaultRef
    /\ summary.groupedFiles[2].group = 2

\* Whether an entry counts toward the metric: the default group's entry always
\* does, a configured group's entry when its countTowardMetric is true.
CountsTowardMetric(entry) ==
    \/ entry.group = DefaultRef
    \/ config.groups[entry.group].countTowardMetric

\* Sums of the reported totals over the entries that count (counted = {TRUE}),
\* that do not (counted = {FALSE}), or over all of them (counted = BOOLEAN).
RECURSIVE SumAdded(_, _)
SumAdded(gf, counted) ==
    IF gf = <<>> THEN 0
    ELSE (IF CountsTowardMetric(Head(gf)) \in counted
          THEN Head(gf).addedLines ELSE 0) + SumAdded(Tail(gf), counted)

RECURSIVE SumRemoved(_, _)
SumRemoved(gf, counted) ==
    IF gf = <<>> THEN 0
    ELSE (IF CountsTowardMetric(Head(gf)) \in counted
          THEN Head(gf).removedLines ELSE 0) + SumRemoved(Tail(gf), counted)

\* C4 (Roll-up): the counted totals are the sums of the reported totals of the
\* entries whose group counts toward the metric, the default group's entry
\* always among them; the uncounted totals are the sums over the other entries.
C4_RollUp ==
    Returned =>
        /\ summary.addedLines = SumAdded(summary.groupedFiles, {TRUE})
        /\ summary.removedLines = SumRemoved(summary.groupedFiles, {TRUE})
        /\ summary.uncountedAddedLines = SumAdded(summary.groupedFiles, {FALSE})
        /\ summary.uncountedRemovedLines = SumRemoved(summary.groupedFiles, {FALSE})

\* The default group and an uncounted group both report changed lines.
C4_Witness ==
    /\ Returned
    /\ Len(summary.groupedFiles) = 2
    /\ summary.groupedFiles[1].group = DefaultRef
    /\ ~CountsTowardMetric(summary.groupedFiles[2])
    /\ summary.addedLines > 0
    /\ summary.removedLines > 0
    /\ summary.uncountedAddedLines > 0
    /\ summary.uncountedRemovedLines > 0

\* C5 (Additivity): the entries' reported totals add up to counted + uncounted.
C5_Additivity ==
    Returned =>
        /\ SumAdded(summary.groupedFiles, BOOLEAN)
              = summary.addedLines + summary.uncountedAddedLines
        /\ SumRemoved(summary.groupedFiles, BOOLEAN)
              = summary.removedLines + summary.uncountedRemovedLines

\* A counted and an uncounted configured group both report removed lines.
C5_Witness ==
    /\ Returned
    /\ Len(summary.groupedFiles) = 2
    /\ summary.groupedFiles[1].group = 1
    /\ summary.groupedFiles[2].group = 2
    /\ summary.removedLines > 0
    /\ summary.uncountedRemovedLines > 0

\* Whether whitespace adjustment applies to an entry's group.
AdjustmentApplies(entry) ==
    GroupOf(config, entry.group).ignoreWhitespace /\ Truthy(whitespaceAdjustedCounts)

InLookup(file) == file.filename \in DOMAIN whitespaceAdjustedCounts.entries

RECURSIVE SumRawAdditions(_)
SumRawAdditions(fs) ==
    IF fs = <<>> THEN 0 ELSE Head(fs).additions + SumRawAdditions(Tail(fs))

RECURSIVE SumRawDeletions(_)
SumRawDeletions(fs) ==
    IF fs = <<>> THEN 0 ELSE Head(fs).deletions + SumRawDeletions(Tail(fs))

\* The lookup's count for a file that it holds, the file's own otherwise.
RECURSIVE SumSubstitutedAdditions(_)
SumSubstitutedAdditions(fs) ==
    IF fs = <<>> THEN 0
    ELSE (IF InLookup(Head(fs))
          THEN whitespaceAdjustedCounts.entries[Head(fs).filename].additions
          ELSE Head(fs).additions) + SumSubstitutedAdditions(Tail(fs))

RECURSIVE SumSubstitutedDeletions(_)
SumSubstitutedDeletions(fs) ==
    IF fs = <<>> THEN 0
    ELSE (IF InLookup(Head(fs))
          THEN whitespaceAdjustedCounts.entries[Head(fs).filename].deletions
          ELSE Head(fs).deletions) + SumSubstitutedDeletions(Tail(fs))

\* C6 (Whitespace substitution): where adjustment applies, the reported totals
\* are the sums of the lookup's counts for the files it holds and of the raw
\* counts for the files it does not hold.
C6_Substitution ==
    Returned =>
        \A e \in DOMAIN summary.groupedFiles :
            LET entry == summary.groupedFiles[e]
            IN AdjustmentApplies(entry) =>
                  /\ entry.addedLines = SumSubstitutedAdditions(entry.files)
                  /\ entry.removedLines = SumSubstitutedDeletions(entry.files)

\* An adjusted entry holds one file the lookup knows, with other counts than
\* the raw ones, and one file it does not know, with raw counts above zero.
C6_Witness ==
    /\ Returned
    /\ \E e \in DOMAIN summary.groupedFiles :
          LET entry == summary.groupedFiles[e]
          IN /\ AdjustmentApplies(entry)
             /\ Len(entry.files) = 2
             /\ InLookup(entry.files[1])
             /\ whitespaceAdjustedCounts.entries[entry.files[1].filename].additions
                   # entry.files[1].additions
             /\ ~InLookup(entry.files[2])
             /\ entry.files[2].additions > 0
             /\ entry.files[2].deletions > 0

HasWhitespaceOnlyFields(entry) ==
    \/ "whitespaceOnlyAddedLines" \in DOMAIN entry
    \/ "whitespaceOnlyRemovedLines" \in DOMAIN entry

\* C7 (No adjustment without flag or lookup): an entry whose group does not
\* ignore whitespace, and every entry when the lookup is null or undefined,
\* reports the raw sums and carries no whitespace-only field.
C7_NoAdjustment ==
    Returned =>
        \A e \in DOMAIN summary.groupedFiles :
            LET entry == summary.groupedFiles[e]
            IN ~AdjustmentApplies(entry) =>
                  /\ entry.addedLines = SumRawAdditions(entry.files)
                  /\ entry.removedLines = SumRawDeletions(entry.files)
                  /\ ~HasWhitespaceOnlyFields(entry)

\* A group that does not ignore whitespace holds a file for which the supplied
\* lookup has smaller counts than the raw ones.
C7_Witness ==
    /\ Returned
    /\ Truthy(whitespaceAdjustedCounts)
    /\ \E e \in DOMAIN summary.groupedFiles :
          LET entry == summary.groupedFiles[e]
          IN /\ ~GroupOf(config, entry.group).ignoreWhitespace
             /\ \E k \in DOMAIN entry.files :
                   /\ InLookup(entry.files[k])
                   /\ whitespaceAdjustedCounts.entries[entry.files[k].filename].additions
                         < entry.files[k].additions
                   /\ whitespaceAdjustedCounts.entries[entry.files[k].filename].deletions
                         < entry.files[k].deletions

\* C8 (Whitespace-delta presence): where adjustment applies, the entry carries
\* the two whitespace-only fields, each the raw sum minus the reported sum,
\* exactly when one of the two differences is above zero.
C8_DeltaPresence ==
    Returned =>
        \A e \in DOMAIN summary.groupedFiles :
            LET entry == summary.groupedFiles[e]
                wsAdded == SumRawAdditions(entry.files) - entry.addedLines
                wsRemoved == SumRawDeletions(entry.files) - entry.removedLines
            IN AdjustmentApplies(entry) =>
                  /\ HasWhitespaceOnlyFields(entry) <=> (wsAdded > 0 \/ wsRemoved > 0)
                  /\ HasWhitespaceOnlyFields(entry) =>
                        /\ "whitespaceOnlyAddedLines" \in DOMAIN entry
                        /\ "whitespaceOnlyRemovedLines" \in DOMAIN entry
                        /\ entry.whitespaceOnlyAddedLines = wsAdded
                        /\ entry.whitespaceOnlyRemovedLines = wsRemoved

\* An adjusted entry whose lookup counts equal the raw counts, above zero,
\* carries no whitespace-only field.
C8_Witness ==
    /\ Returned
    /\ \E e \in DOMAIN summary.groupedFiles :
          LET entry == summary.groupedFiles[e]
          IN /\ AdjustmentApplies(entry)
             /\ \A k \in DOMAIN entry.files : InLookup(entry.files[k])
             /\ entry.addedLines = SumRawAdditions(entry.files)
             /\ entry.removedLines = SumRawDeletions(entry.files)
             /\ entry.addedLines > 0
             /\ entry.removedLines > 0
             /\ ~HasWhitespaceOnlyFields(entry)

\* C9 as stated (Whitespace delta non-negativity): an entry that carries the
\* whitespace-only fields carries two strictly positive values.
C9_BothStrictlyPositive ==
    Returned =>
        \A e \in DOMAIN summary.groupedFiles :
            LET entry == summary.groupedFiles[e]
            IN HasWhitespaceOnlyFields(entry) =>
                  /\ entry.whitespaceOnlyAddedLines > 0
                  /\ entry.whitespaceOnlyRemovedLines > 0

\* C9 as amended: an entry that carries the whitespace-only fields carries
\* both of them, and at least one of the two values is strictly positive.
C9_OneStrictlyPositive ==
    Returned =>
        \A e \in DOMAIN summary.groupedFiles :
            LET entry == summary.groupedFiles[e]
            IN HasWhitespaceOnlyFields(entry) =>
                  /\ "whitespaceOnlyAddedLines" \in DOMAIN entry
                  /\ "whitespaceOnlyRemovedLines" \in DOMAIN entry
                  /\ \/ entry.whitespaceOnlyAddedLines > 0
                     \/ entry.whitespaceOnlyRemovedLines > 0

\* An entry carries a positive added delta next to a removed delta of zero.
C9_Witness ==
    /\ Returned
    /\ \E e \in DOMAIN summary.groupedFiles :
          LET entry == summary.groupedFiles[e]
          IN /\ HasWhitespaceOnlyFields(entry)
             /\ entry.whitespaceOnlyAddedLines > 0
             /\ entry.whitespaceOnlyRemovedLines = 0

\* ------------------------------------------------------------------------
\* Properties of parseFileGroups
\* ------------------------------------------------------------------------

ParseCalled == pc = "parseFileGroups" /\ result # NoResult

\* The entries of the top-level list, when the input is one.
Entries ==
    IF args.fileGroupsYaml \notin {BlankYaml, InvalidYaml}
       /\ IsArray(args.fileGroupsYaml.parsed)
    THEN args.fileGroupsYaml.parsed.items
    ELSE <<>>

\* Field key of entry i as written in the input (Undefined when not written,
\* or when the entry is no mapping).
Written(i, key) == IF Entries[i].t = "object" THEN Entries[i][key] ELSE Undefined

AllWhiteSpace(chars) == \A k \in DOMAIN chars : chars[k] \in WhiteSpace

NonEmptyString(v) == IsString(v) /\ ~AllWhiteSpace(v.chars)

LabelInvalid(i) == ~NonEmptyString(Written(i, "label"))

PatternsInvalid(i) ==
    ~IsArray(Written(i, "patterns")) \/ Written(i, "patterns").items = <<>>

\* The 0-based indexes of the pattern entries that are no non-empty string.
BadPatterns(i) ==
    IF PatternsInvalid(i) THEN {}
    ELSE {j \in 0..(Len(Written(i, "patterns").items) - 1) :
             ~NonEmptyString(Written(i, "patterns").items[j + 1])}

CountInvalid(i) ==
    Written(i, "count") # Undefined /\ ~IsBoolean(Written(i, "count"))

IgnoreWhitespaceInvalid(i) ==
    /\ Written(i, "ignore_whitespace") # Undefined
    /\ ~IsBoolean(Written(i, "ignore_whitespace"))

InvalidEntry(i) ==
    \/ LabelInvalid(i)
    \/ PatternsInvalid(i)
    \/ BadPatterns(i) # {}
    \/ CountInvalid(i)
    \/ IgnoreWhitespaceInvalid(i)

InvalidEntries == {i \in DOMAIN Entries : InvalidEntry(i)}

Least(S) == CHOOSE x \in S : \A y \in S : x <= y

\* The error of the first violated rule of entry i, numbered from 1.
FirstViolation(i) ==
    IF LabelInvalid(i) THEN LabelError(i)
    ELSE IF PatternsInvalid(i) THEN PatternsError(i, Written(i, "label").chars)
    ELSE IF BadPatterns(i) # {}
    THEN PatternError(i, Written(i, "label").chars, Least(BadPatterns(i)))
    ELSE IF CountInvalid(i) THEN CountError(i, Written(i, "label").chars)
    ELSE IgnoreWhitespaceError(i, Written(i, "label").chars)

\* C13 (Which configuration error is reported): when the list holds invalid
\* groups, parseFileGroups throws the error of the lowest-indexed invalid
\* group, numbered from 1, and within it of the first violated rule in the
\* order label, patterns, pattern entries (lowest index first), count,
\* ignore-whitespace.
C13_FirstViolationReported ==
    (ParseCalled /\ InvalidEntries # {}) =>
        result = Throws(FirstViolation(Least(InvalidEntries)))

\* C14 (Group-indexed diagnostics): when entry i of the list is invalid,
\* be it a mapping, null or a scalar, parseFileGroups throws one of its own
\* errors and the message names a group; no other kind of failure escapes.
C14_GroupIndexedDiagnostics ==
    (ParseCalled /\ InvalidEntries # {}) =>
        /\ HasThrown(result)
        /\ result.threw.name = "Error"
        /\ "group" \in DOMAIN result.threw
        /\ result.threw.group \in InvalidEntries

\* Entry i is the one whose count the parser gets to check: the entries
\* before it are valid and its own label and patterns are.
CountReached(i) ==
    /\ \A k \in 1..(i - 1) : ~InvalidEntry(k)
    /\ ~LabelInvalid(i)
    /\ ~PatternsInvalid(i)
    /\ BadPatterns(i) = {}

\* C15 (count flag handling): in a returned configuration a group written
\* without count has countTowardMetric true and a group written with a
\* boolean count has that boolean; a non-boolean count makes parseFileGroups
\* throw the error that names the group's index, its label and the field count.
C15_CountFlag ==
    ParseCalled =>
        \A i \in DOMAIN Entries :
            /\ (HasReturned(result) /\ Written(i, "count") = Undefined) =>
                  result.returned.groups[i].countTowardMetric = TRUE
            /\ (HasReturned(result) /\ IsBoolean(Written(i, "count"))) =>
                  result.returned.groups[i].countTowardMetric = Written(i, "count").b
            /\ (CountReached(i) /\ CountInvalid(i)) =>
                  result = Throws(CountError(i, Written(i, "label").chars))

\* The second group of a list has a count that is no boolean, and the parser
\* has thrown the error that names it.
C15_Witness ==
    /\ ParseCalled
    /\ Len(Entries) = 2
    /\ CountReached(2)
    /\ CountInvalid(2)
    /\ HasThrown(result)
    /\ result.threw = CountError(2, <<"A">>)

\* stored is raw without the white space around it, and is not empty.
IsTrimmed(stored, raw) ==
    /\ stored # <<>>
    /\ stored[1] \notin WhiteSpace
    /\ stored[Len(stored)] \notin WhiteSpace
    /\ \E k \in 0..(Len(raw) - Len(stored)) :
          /\ SubSeq(raw, k + 1, k + Len(stored)) = stored
          /\ AllWhiteSpace(SubSeq(raw, 1, k))
          /\ AllWhiteSpace(SubSeq(raw, k + Len(stored) + 1, Len(raw)))

\* C16 (Well-formed parser output): a returned configuration has one group
\* per entry of the input list, in input order; each group's label is the
\* entry's label trimmed, and non-empty; its patterns are the entry's
\* patterns, as many and in the same order, each trimmed and non-empty.
C16_WellFormedOutput ==
    (ParseCalled /\ HasReturned(result)) =>
        LET groups == result.returned.groups
        IN /\ Len(groups) = Len(Entries)
           /\ \A i \in DOMAIN groups :
                 /\ IsTrimmed(groups[i].label, Written(i, "label").chars)
                 /\ groups[i].patterns # <<>>
                 /\ Len(groups[i].patterns) = Len(Written(i, "patterns").items)
                 /\ \A j \in DOMAIN groups[i].patterns :
                       IsTrimmed(groups[i].patterns[j],
                                 Written(i, "patterns").items[j].chars)

\* Two groups are returned, the first from a label and patterns written with
\* white space around them.
C16_Witness ==
    /\ ParseCalled
    /\ HasReturned(result)
    /\ Len(result.returned.groups) = 2
    /\ Written(1, "label") = Str(<<" ", "B", " ", "b", "\t">>)
    /\ result.returned.groups[1].label = <<"B", " ", "b">>
    /\ result.returned.groups[1].patterns = << <<"y">>, <<"x">> >>
    /\ result.returned.groups[2].label = <<"A">>

\* ------------------------------------------------------------------------
\* Properties of generateDiffSquares
\* ------------------------------------------------------------------------

SquaresCalled == pc = "generateDiffSquares" /\ result # NoResult

\* g is 5a / (a + d) rounded to the nearest integer, a half going up:
\* g - 1/2 <= 5a / (a + d) < g + 1/2.
NearestHalfUp(g, a, d) ==
    /\ (2 * g - 1) * (a + d) <= 10 * a
    /\ 10 * a < (2 * g + 1) * (a + d)

\* C17 (Proportional indicator): for additions a and deletions d with
\* a + d > 0 generateDiffSquares returns g green squares followed by 5 - g red
\* ones, g in 0..5 being 5a / (a + d) rounded to the nearest integer with
\* halves up; for a + d = 0 it returns five empty squares.
C17_ProportionalIndicator ==
    SquaresCalled =>
        LET a == args.additions
            d == args.deletions
        IN IF a + d > 0
           THEN \E g \in 0..5 :
                   /\ NearestHalfUp(g, a, d)
                   /\ result = Returns([i \in 1..5 |->
                                  IF i <= g THEN GreenSquare ELSE RedSquare])
           ELSE result = Returns(<<EmptySquare, EmptySquare, EmptySquare,
                                   EmptySquare, EmptySquare>>)

\* 7 additions and 3 deletions: 5a / (a + d) is 3.5, a half, and four green
\* squares are returned.
C17_Witness ==
    /\ SquaresCalled
    /\ args.additions = 7
    /\ args.deletions = 3
    /\ result = Returns(<<GreenSquare, GreenSquare, GreenSquare, GreenSquare,
                          RedSquare>>)

\* ------------------------------------------------------------------------
\* Properties of validateGlobPatterns
\* ------------------------------------------------------------------------

ValidateCalled == pc = "validateGlobPatterns" /\ result # NoResult

\* Pattern k of the call triggers one of the three checks.
TriggersCheck(k) ==
    \/ ConstructionThrows(args.patterns[k])
    \/ ContainsBackslash(args.patterns[k]) /\ args.platform # "win32"
    \/ StartsWithSlash(args.patterns[k])

\* C18 (validateGlobPatterns never throws): every call returns a list; for a
\* pattern whose matcher construction fails the list holds a message with the
\* pattern and the constructor's reason; the list is empty exactly when no
\* pattern triggers a check.
C18_NeverThrows ==
    ValidateCalled =>
        /\ HasReturned(result)
        /\ \A k \in DOMAIN args.patterns :
              ConstructionThrows(args.patterns[k]) =>
                 \E m \in DOMAIN result.returned :
                    /\ result.returned[m].pattern = args.patterns[k]
                    /\ "reason" \in DOMAIN result.returned[m]
                    /\ result.returned[m].reason = ConstructionMessage(args.patterns[k])
        /\ (result.returned = <<>>) <=> (\A k \in DOMAIN args.patterns : ~TriggersCheck(k))

\* A list with a sound pattern and one the constructor rejects has been
\* validated, and one message came back.
C18_Witness ==
    /\ ValidateCalled
    /\ args.patterns = <<"**/generated/**", TooLongPattern>>
    /\ HasReturned(result)
    /\ Len(result.returned) = 1

\* ------------------------------------------------------------------------
\* Properties of calculateDiffSummary on rejected patterns
\* ------------------------------------------------------------------------

MatcherCalled == pc = "calculateDiffSummary" /\ result # NoResult

\* The group a file belongs to when a rejected pattern matches no file: the
\* first with a pattern the matcher accepts and matches, else the default.
SoundMatch(group, file) ==
    \E j \in DOMAIN group.patterns :
        /\ ~MinimatchThrows(group.patterns[j])
        /\ minimatch(file.filename, group.patterns[j])

SoundRef(file) ==
    IF \E i \in DOMAIN config.groups : SoundMatch(config.groups[i], file)
    THEN Least({i \in DOMAIN config.groups : SoundMatch(config.groups[i], file)})
    ELSE DefaultRef

\* C20 (A bad pattern does not abort aggregation): when the matcher fails on
\* a pattern during classification, calculateDiffSummary still returns a
\* summary; it covers every input file, each in the group it belongs to when
\* the bad pattern matches no file.
C20_BadPatternMatchesNothing ==
    MatcherCalled =>
        /\ HasReturned(result)
        /\ result.returned.totalFiles = Len(files)
        /\ \A k \in DOMAIN files :
              \E e \in DOMAIN result.returned.groupedFiles :
                 /\ result.returned.groupedFiles[e].group = SoundRef(files[k])
                 /\ \E f \in DOMAIN result.returned.groupedFiles[e].files :
                       result.returned.groupedFiles[e].files[f] = files[k]

\* ------------------------------------------------------------------------
\* Further properties of calculateDiffSummary
\* ------------------------------------------------------------------------

InputIndex(file) == CHOOSE i \in DOMAIN files : files[i].filename = file.filename

\* C22 (Stable partition): within every groupedFiles entry of a returned
\* summary, the files keep the relative order they had in the input list.
C22_StablePartition ==
    Returned =>
        \A e \in DOMAIN summary.groupedFiles :
            \A k1, k2 \in DOMAIN summary.groupedFiles[e].files :
                k1 < k2 => InputIndex(summary.groupedFiles[e].files[k1])
                              < InputIndex(summary.groupedFiles[e].files[k2])

\* Two input files have been claimed by the same configured group.
C22_Witness ==
    /\ Returned
    /\ \E e \in DOMAIN summary.groupedFiles :
          /\ summary.groupedFiles[e].group # DefaultRef
          /\ Len(summary.groupedFiles[e].files) = 2

\* ------------------------------------------------------------------------
\* Further properties of validateGlobPatterns
\* ------------------------------------------------------------------------

\* The warnings of the checks a pattern violates, one per check.
ViolatedChecks(pattern, platform) ==
    (IF ContainsBackslash(pattern) /\ platform # "win32"
     THEN {BackslashWarning(pattern)} ELSE {})
    \cup (IF StartsWithSlash(pattern) THEN {LeadingSlashWarning(pattern)} ELSE {})
    \cup (IF ConstructionThrows(pattern)
          THEN {InvalidPatternWarning(pattern, ConstructionMessage(pattern))}
          ELSE {})

\* messages is made of one block per pattern, in the order of the patterns,
\* each block holding the warnings of the checks its pattern violates.
RECURSIVE OneBlockPerPattern(_, _, _)
OneBlockPerPattern(messages, patterns, platform) ==
    IF patterns = <<>> THEN messages = <<>>
    ELSE LET block == ViolatedChecks(Head(patterns), platform)
             n == Cardinality(block)
         IN /\ Len(messages) >= n
            /\ {messages[i] : i \in 1..n} = block
            /\ OneBlockPerPattern(SubSeq(messages, n + 1, Len(messages)),
                                  Tail(patterns), platform)

\* C23 (Independent validator checks): the backslash, the leading-slash and
\* the construction check are each reported on their own: every pattern yields
\* one warning per check it violates, and the warnings come in the order of
\* the patterns.
C23_OneWarningPerViolatedCheck ==
    ValidateCalled =>
        /\ HasReturned(result)
        /\ OneBlockPerPattern(result.returned, args.patterns, args.platform)

\* ------------------------------------------------------------------------
\* Properties of generateCommentBody
\* ------------------------------------------------------------------------

RenderCalled == pc = "generateCommentBody" /\ result # NoResult

\* The pieces of a body whose text contains the identifier.
IdentifierOccurrences(body) ==
    {i \in DOMAIN body : "text" \in DOMAIN body[i] /\ Includes(body[i].text)}

\* C24 (Marker uniqueness in the rendered body): whatever the summary, the
\* header, the group labels and the file names, the body starts with the
\* identifier and contains it exactly once.
C24_IdentifierExactlyOnce ==
    RenderCalled =>
        /\ result.returned[1] = IdentifierPiece
        /\ IdentifierOccurrences(result.returned) = {1}

\* The section a row of the body is in: the last section piece before it.
SectionOf(body, i) ==
    CHOOSE s \in 1..i : /\ body[s].piece = "section"
                        /\ \A t \in (s + 1)..i : body[t].piece # "section"

\* Two rows of one table, the first above the second.
RowsOfOneTable(body, i, j) ==
    /\ i < j
    /\ body[i].piece = "row"
    /\ body[j].piece = "row"
    /\ SectionOf(body, i) = SectionOf(body, j)

\* The input file a row shows (names are unique).
FileOfRow(row) == files[CHOOSE i \in DOMAIN files : files[i].filename = row.text]

\* C25 (Stably sorted file tables): in every table of the body the rows are in
\* non-increasing order of changes, rows with equal changes are in input
\* order, and the file lists of the summary are in their original order.
C25_StablySortedTables ==
    RenderCalled =>
        /\ \A i, j \in DOMAIN result.returned :
              RowsOfOneTable(result.returned, i, j) =>
                  LET above == FileOfRow(result.returned[i])
                      below == FileOfRow(result.returned[j])
                  IN /\ above.changes >= below.changes
                     /\ above.changes = below.changes
                           => InputIndex(above) < InputIndex(below)
        /\ summary = calculateDiffSummary(files, config, whitespaceAdjustedCounts)
        /\ \A e \in DOMAIN summary.groupedFiles :
              \A k1, k2 \in DOMAIN summary.groupedFiles[e].files :
                  k1 < k2 => InputIndex(summary.groupedFiles[e].files[k1])
                                < InputIndex(summary.groupedFiles[e].files[k2])

\* A table of three rows: the second input file on top, and the two others,
\* with equal changes, below it.
C25_Witness ==
    /\ RenderCalled
    /\ Len(files) = 3
    /\ files[1].changes = files[3].changes
    /\ files[2].changes > files[1].changes
    /\ \E i \in DOMAIN result.returned :
          /\ i + 2 \in DOMAIN result.returned
          /\ \A k \in 0..2 : result.returned[i + k].piece = "row"
          /\ result.returned[i].text = files[2].filename
          /\ result.returned[i + 1].text = files[1].filename
          /\ result.returned[i + 2].text = files[3].filename

\* ------------------------------------------------------------------------
\* Further properties of run()
\* ------------------------------------------------------------------------

\* The default group or a configured group ignores whitespace.
SomeGroupIgnoresWhitespace ==
    \/ config.defaultGroup.ignoreWhitespace
    \/ \E g \in {config.groups[i] : i \in DOMAIN config.groups} : g.ignoreWhitespace

LookupRequested == \E i \in DOMAIN calls : calls[i] = "getGitWhitespaceDiff"

\* C26 (Whitespace lookup on demand): the step after the listing of the files
\* calls getGitWhitespaceDiff if and only if the default group or a configured
\* group ignores whitespace, and no other step calls it; without the call
\* calculateDiffSummary gets null; and whatever the lookup is, null included,
\* the step reports no failure and hands over to calculateDiffSummary, which,
\* given null, returns the summary of the raw counts.
C26_LookupOnDemand ==
    /\ [][pc = "whitespace" =>
            /\ (calls' = Append(calls, "getGitWhitespaceDiff")) <=> SomeGroupIgnoresWhitespace
            /\ ~SomeGroupIgnoresWhitespace =>
                  calls' = calls /\ whitespaceAdjustedCounts' = NullCounts
            /\ pc' = "calculate"
            /\ failed' = failed]_vars
    /\ [][pc # "whitespace" => (LookupRequested' <=> LookupRequested)]_vars
    /\ [][(pc = "calculate" /\ pc' = "setOutputs" /\ whitespaceAdjustedCounts = NullCounts) =>
            /\ failed' = failed
            /\ summary' = calculateDiffSummary(files, config, UndefinedCounts)]_vars

\* The lookup was requested and came back null; the run went on to the end
\* with the raw counts of a changed file.
C26_Witness ==
    /\ pc = "done"
    /\ LookupRequested
    /\ whitespaceAdjustedCounts = NullCounts
    /\ failed = <<>>
    /\ summary # NoSummary
    /\ summary.addedLines > 0

\* ------------------------------------------------------------------------
\* Properties of getGitWhitespaceDiff
\* ------------------------------------------------------------------------

GitCalled == pc = "getGitWhitespaceDiff" /\ result # NoResult

\* The lines of an output that carry two counts and a name, in order.
CountedLines(output) ==
    SelectSeq(output, LAMBDA parts :
        Len(parts) = 3 /\ parts[1] \in {"0", "1", "1x"} /\ parts[2] \in {"0", "1", "1x"})

\* C27 (getGitWhitespaceDiff never fails its caller): the call returns, never
\* throws; without a checkout it returns null and runs no git command; when
\* git diff fails it returns null and logs a warning; when only git fetch
\* fails it runs git diff all the same and returns the Map parsed from its
\* output, one entry per file the output counts.
C27_NeverFailsCaller ==
    GitCalled =>
        /\ HasReturned(result)
        /\ ~args.checkout => result.returned = NullCounts /\ calls = <<>>
        /\ (args.checkout /\ HasThrown(args.diff)) =>
              /\ result.returned = NullCounts
              /\ Len(warnings) = 1
              /\ warnings[1].says = "Failed to get whitespace-adjusted diff"
        /\ (args.checkout /\ HasThrown(args.fetch) /\ HasReturned(args.diff)) =>
              /\ calls = <<"git fetch", "git diff">>
              /\ warnings = <<>>
              /\ result.returned.kind = "map"
              /\ DOMAIN result.returned.entries =
                    {ResolvedFilename(CountedLines(args.diff.returned)[i][3]) :
                        i \in DOMAIN CountedLines(args.diff.returned)}

\* git fetch failed, git diff printed the counts of a file, and the call
\* returned them.
C27_Witness ==
    /\ GitCalled
    /\ args.checkout
    /\ HasThrown(args.fetch)
    /\ HasReturned(args.diff)
    /\ HasReturned(result)
    /\ result.returned.kind = "map"
    /\ "src/main.ts" \in DOMAIN result.returned.entries

\* The comment writes run() has made.
CommentWrites == {i \in DOMAIN calls : calls[i] \in {"updateComment", "createComment"}}

\* C28 (Exactly one comment write per completed run): the posting step makes
\* one call, updateComment when a listed comment contains the identifier and
\* createComment otherwise; no other step writes a comment, so a run never
\* makes more than one write, and a run that ended without failure made one.
C28_OneCommentWrite ==
    /\ [][pc = "post" =>
            calls' = Append(calls,
                            IF \E i \in DOMAIN comments : comments[i] = ReportBody
                            THEN "updateComment" ELSE "createComment")]_vars
    /\ [][pc # "post" => CommentWrites' = CommentWrites]_vars
    /\ [](Cardinality(CommentWrites) <= 1)
    /\ []((pc = "done" /\ failed = <<>>) => Cardinality(CommentWrites) = 1)

\* A run has ended after updating the report found among the listed comments.
C28_Witness ==
    /\ pc = "done"
    /\ failed = <<>>
    /\ \E i \in DOMAIN comments : comments[i] = ReportBody
    /\ calls[Len(calls)] = "updateComment"

\* run() is past the check of an event without pull_request.
EventRejected ==
    /\ ~env.hasPullRequest
    /\ pc \notin {"start", "parse", "validate", "checkEvent"}

\* C29 (Non-pull-request events are rejected without side effects): on an
\* event without pull_request the check of the event calls core.setFailed and
\* run() ends there: the action is marked failed once, no file is listed, no
\* output set and no comment listed, created or updated.
C29_EventRejectedWithoutEffects ==
    /\ [][(pc = "checkEvent" /\ ~env.hasPullRequest) =>
            /\ failed' = Append(failed, NotPullRequestMessage)
            /\ pc' = "done"]_vars
    /\ [](EventRejected =>
            /\ pc = "done"
            /\ Len(failed) = 1
            /\ files = <<>>
            /\ outputs = <<>>
            /\ comments = <<>>
            /\ \A i \in DOMAIN calls :
                  calls[i] \in {"parseFileGroups", "validateGlobPatterns"})
    /\ [][~env.hasPullRequest => prComments' = prComments]_vars

\* An event without pull_request was rejected by the check itself, on a
\* thread that holds comments.
C29_Witness ==
    /\ EventRejected
    /\ failed = <<NotPullRequestMessage>>
    /\ prComments # <<>>

\* The run ended with the report written and no failure.
Posted ==
    /\ failed = <<>>
    /\ Cardinality(CommentWrites) = 1
    /\ \E i \in DOMAIN prComments : prComments[i] = ReportBody

\* C30 (Two outcomes): a run that has ended either wrote the comment and is
\* not marked failed, or is marked failed exactly once; core.setFailed is
\* never called a second time, and the call that marks the failure ends the
\* run.
C30_TwoOutcomes ==
    /\ [](pc = "done" => (Posted \/ (Len(failed) = 1 /\ ~Posted)))
    /\ [](Len(failed) <= 1)
    /\ [][failed' # failed => (Len(failed') = Len(failed) + 1 /\ pc' = "done")]_vars

\* The listing of the comments raised an error and the run ended marked
\* failed, after the outputs were set.
C30_Witness ==
    /\ pc = "done"
    /\ Len(failed) = 1
    /\ outputs # <<>>
    /\ calls[Len(calls)] = "listComments"

====
